---- MODULE Spec2Model ----
(***************************************************************************)
(* PolyRead language-pack tooling: the StarDict reader                     *)
(* (convert_french_stardict.py) and the bidirectional converters           *)
(* (convert_french_stardict.py, convert_to_bidirectional.py,               *)
(* language_pack_pipeline.py) as state machines.                           *)
(*                                                                         *)
(* Bytes are integers 0..255, text is a sequence of code points.           *)
(***************************************************************************)
EXTENDS Integers, Sequences, FiniteSets, TLC

VARIABLES
    \* ---- read_idx_file ----
    idx_bytes,      \* content of the .idx file
    idx_pos,        \* file position of f (bytes consumed so far)
    word_bytes,     \* word_bytes of the current iteration
    words,          \* the list being returned: <<word, offset, size>>
    idx_pc,         \* position in read_idx_file
    items,          \* what was written to the .idx file, record by record
    cut,            \* number of bytes missing at the end of the file
    \* ---- read_dict_file ----
    dict_bytes,     \* logical (decompressed) content of the .dict file
    dict_offset,    \* argument offset
    dict_size,      \* argument size
    dict_result,    \* the returned string
    dict_pc,        \* position in read_dict_file
    \* ---- parse_stardict_entry ----
    raw_definition, \* argument of the first call
    parsed,         \* result of the first call: <<main_def, definition>>
    reparsed,       \* result of the call on the first call's main_def
    parse_pc,       \* number of calls made
    \* ---- the converters ----
    variant,        \* which converter runs: "french", "bidir" or "pipeline"
    source_lang,    \* the pack's source language
    target_lang,    \* the pack's target language
    source_rows,    \* rows <<word, definition>> of the source SQLite table
    consumed,       \* number of source records consumed by the loop
    forward_batch,  \* buffered forward entries
    reverse_batch,  \* buffered reverse entries
    batch,          \* buffered rows of the single-language generator
    db_rows,        \* dictionary_entries of the destination, in id order
    committed,      \* number of rows of db_rows that are committed
    forward_count,
    reverse_count,
    error_count,
    write_failures, \* database writes that have failed so far
    conv_pc,        \* position in the converter
    \* ---- one build of a pack's database on the file system ----
    builder,        \* which converter builds: "french", "bidir", "pipeline"
    stardict_files, \* kinds of StarDict file found in the source directory
    fs,             \* content of each database path, as a reader sees it
    fs0,            \* fs when the build started
    txn,            \* writes of the destination connection not yet committed
    source_count,   \* number of records of the source of this build
    written,        \* number of source records written so far
    run_pc,         \* position in the build
    \* ---- the multi-pack drivers ----
    driver,         \* which driver runs
    pack_count,     \* number of configured packs
    pack_index,     \* number of packs the loop has finished with
    drive_pc,       \* position in the driver
    attempts,       \* the packs the loop body was entered for, in order
    results,        \* results / all_pack_info: <<pack, success>>
    successful_packs,
    failed_packs,
    output_files,   \* files in assets/language_packs: <<pack, kind>>, or
                    \* [name, member] in consolidate_language_packs
    package_failed, \* packs whose create_zip_package raised
    drive_registry, \* ids of the packs in comprehensive-registry.json
    uploads,        \* the lists passed to upload_to_github
    passed,         \* ghost: <<pack, step>> for each step that succeeded
    \* ---- extract_reverse_translations ----
    ext_definition, \* argument definition
    ext_target_lang, \* argument target_lang
    reverse_words,  \* the returned list
    ext_pc,         \* position in extract_reverse_translations
    \* ---- PackDeployer ----
    language_id,    \* the pack being deployed
    zip_file,       \* content of completed_packs/<language_id>.sqlite.zip
    summary_file,   \* completed_packs/<language_id>_summary.json
    registry,       \* comprehensive-registry.json next to the scripts
    cwd,            \* where deploy is run from
    release,        \* assets uploaded to the GitHub release
    steps,          \* the steps deploy has run: <<step, returned value>>
    deploys,        \* number of deploy calls so far
    deploy_pc,      \* position in deploy
    deploy_result   \* what deploy returned

idxVars == <<idx_bytes, idx_pos, word_bytes, words, idx_pc, items, cut>>
dictVars == <<dict_bytes, dict_offset, dict_size, dict_result, dict_pc>>
parseVars == <<raw_definition, parsed, reparsed, parse_pc>>

convVars == <<variant, source_lang, target_lang, source_rows, consumed,
              forward_batch, reverse_batch, batch, db_rows, committed,
              forward_count, reverse_count, error_count, write_failures,
              conv_pc>>

runVars == <<builder, stardict_files, fs, fs0, txn, source_count, written,
             run_pc>>

driveVars == <<driver, pack_count, pack_index, drive_pc, attempts, results,
               successful_packs, failed_packs, output_files, package_failed,
               drive_registry, uploads, passed>>

extractVars == <<ext_definition, ext_target_lang, reverse_words, ext_pc>>

deployVars == <<language_id, zip_file, summary_file, registry, cwd, release,
                steps, deploys, deploy_pc, deploy_result>>

packVars == <<runVars, driveVars, extractVars, deployVars>>

otherVars == <<idxVars, dictVars, parseVars, convVars, runVars, driveVars,
               extractVars>>

vars == <<idxVars, dictVars, parseVars, convVars, packVars>>

(***************************************************************************)
(* Bounds                                                                  *)
(***************************************************************************)
MaxItems == 2       \* records written to an .idx file
MaxCut == 9         \* bytes cut off the end of an .idx file
MaxDictLen == 3     \* bytes in a .dict file
MaxDefLen == 4      \* characters in a definition given to parse_stardict_entry
MaxRecords == 3     \* source records given to a converter
MaxWriteFailures == 1   \* database writes that fail during one conversion
batch_size == 2     \* stands for the 1000 of the code
MaxSourceCount == 3 \* source records of one build of a database
reuse_minimum == 1  \* stands for the 1000 of `if count > 1000`
MaxPacks == 2       \* configured packs of a driver
MaxPieces == 2      \* pieces of a definition given to the extraction
MaxDeploys == 2     \* calls of PackDeployer.deploy

(***************************************************************************)
(* Code points and bytes used by the code                                  *)
(***************************************************************************)
NUL == 0
NEWLINE == 10
LPAREN == 40
RPAREN == 41
PIPE == 124
SPACE == 32
COMMA == 44
DOT == 46
SEMICOLON == 59
LT == 60
GT == 62
LBRACKET == 91
RBRACKET == 93

SeqsUpTo(S, n) == UNION {[1..k -> S] : k \in 0..n}

(***************************************************************************)
(* bytes.decode('utf-8'), strict                                           *)
(***************************************************************************)
IsCont(b) == b >= 128 /\ b <= 191

DecodeFailed == [ok |-> FALSE, text |-> <<>>]

RECURSIVE Utf8Decode(_)
Utf8Decode(bs) ==
    IF bs = <<>> THEN [ok |-> TRUE, text |-> <<>>]
    ELSE
      LET n == Len(bs)
          b1 == bs[1]
          Rest(k, cp) ==
              LET r == Utf8Decode(SubSeq(bs, k + 1, n))
              IN  IF r.ok THEN [ok |-> TRUE, text |-> <<cp>> \o r.text]
                  ELSE DecodeFailed
      IN  IF b1 < 128 THEN Rest(1, b1)
          ELSE IF b1 >= 194 /\ b1 <= 223
          THEN IF n >= 2 /\ IsCont(bs[2])
               THEN Rest(2, (b1 - 192) * 64 + (bs[2] - 128))
               ELSE DecodeFailed
          ELSE IF b1 >= 224 /\ b1 <= 239
          THEN IF /\ n >= 3 /\ IsCont(bs[2]) /\ IsCont(bs[3])
                  /\ (b1 = 224 => bs[2] >= 160)
                  /\ (b1 = 237 => bs[2] <= 159)
               THEN Rest(3, (b1 - 224) * 4096 + (bs[2] - 128) * 64
                            + (bs[3] - 128))
               ELSE DecodeFailed
          ELSE IF b1 >= 240 /\ b1 <= 244
          THEN IF /\ n >= 4 /\ IsCont(bs[2]) /\ IsCont(bs[3]) /\ IsCont(bs[4])
                  /\ (b1 = 240 => bs[2] >= 144)
                  /\ (b1 = 244 => bs[2] <= 143)
               THEN Rest(4, (b1 - 240) * 262144 + (bs[2] - 128) * 4096
                            + (bs[3] - 128) * 64 + (bs[4] - 128))
               ELSE DecodeFailed
          ELSE DecodeFailed

(***************************************************************************)
(* struct.pack('>I', n) / struct.unpack('>I', data)[0]                     *)
(***************************************************************************)
PackBE(n) ==
    << (n \div 16777216) % 256, (n \div 65536) % 256,
       (n \div 256) % 256, n % 256 >>

RECURSIVE UnpackLE(_)
UnpackLE(data) ==
    IF data = <<>> THEN 0
    ELSE data[1] + 256 * UnpackLE(Tail(data))

RECURSIVE UnpackBE(_)
UnpackBE(data) ==
    IF data = <<>> THEN 0
    ELSE UnpackBE(SubSeq(data, 1, Len(data) - 1)) * 256 + data[Len(data)]

(***************************************************************************)
(* The .idx file as written: {word}{0x00}{uint32BE offset}{uint32BE size}  *)
(***************************************************************************)
IdxWordBytes == { <<97>>, <<195, 169>>, <<255>>, <<>> }
FieldValues == {0, 258}
IdxItems == [word : IdxWordBytes, offset : FieldValues, size : FieldValues]

EncodeItem(it) == it.word \o <<NUL>> \o PackBE(it.offset) \o PackBE(it.size)

RECURSIVE EncodeItems(_)
EncodeItems(its) ==
    IF its = <<>> THEN <<>>
    ELSE EncodeItem(its[1]) \o EncodeItems(Tail(its))

(***************************************************************************)
(* read_idx_file                                                           *)
(***************************************************************************)
\* f.read(n) at position p: at most n bytes, fewer at end of file
FileRead(bs, p, n) ==
    SubSeq(bs, p + 1, IF p + n <= Len(bs) THEN p + n ELSE Len(bs))

\* number of bytes before the next 0x00 or the end of file, from position p
WordEnd(bs, p) ==
    CHOOSE q \in p..Len(bs) :
        /\ (q = Len(bs) \/ bs[q + 1] = NUL)
        /\ \A r \in p..(q - 1) : bs[r + 1] # NUL

FieldsCompleteOffsetOnly(offset_data, size_data) == Len(offset_data) = 4

FieldsComplete(offset_data, size_data) ==
    Len(offset_data) = 4 /\ Len(size_data) = 4

IdxIdle ==
    /\ idx_bytes = <<>> /\ idx_pos = 0 /\ word_bytes = <<>> /\ words = <<>>
    /\ idx_pc = "idle" /\ items = <<>> /\ cut = 0

DictIdle ==
    /\ dict_bytes = <<>> /\ dict_offset = 0 /\ dict_size = 0
    /\ dict_result = <<>> /\ dict_pc = "idle"

ParseIdle ==
    /\ raw_definition = <<>> /\ parsed = <<>> /\ reparsed = <<>>
    /\ parse_pc = "idle"

ConvIdle ==
    /\ variant = "none" /\ source_lang = "" /\ target_lang = ""
    /\ source_rows = <<>> /\ consumed = 0
    /\ forward_batch = <<>> /\ reverse_batch = <<>> /\ batch = <<>>
    /\ db_rows = <<>> /\ committed = 0
    /\ forward_count = 0 /\ reverse_count = 0 /\ error_count = 0
    /\ write_failures = 0 /\ conv_pc = "idle"

RunIdle ==
    /\ builder = "none" /\ stardict_files = {} /\ fs = <<>> /\ fs0 = <<>>
    /\ txn = <<>> /\ source_count = 0 /\ written = 0 /\ run_pc = "idle"

DriveIdle ==
    /\ driver = "none" /\ pack_count = 0 /\ pack_index = 0
    /\ drive_pc = "idle" /\ attempts = <<>> /\ results = <<>>
    /\ successful_packs = <<>> /\ failed_packs = <<>>
    /\ output_files = {} /\ package_failed = {}
    /\ drive_registry = <<>> /\ uploads = <<>> /\ passed = {}

ExtractIdle ==
    /\ ext_definition = <<>> /\ ext_target_lang = ""
    /\ reverse_words = <<>> /\ ext_pc = "idle"

DeployIdle ==
    /\ language_id = "" /\ zip_file = "absent" /\ summary_file = <<>>
    /\ registry = <<>> /\ cwd = "" /\ release = {} /\ steps = <<>>
    /\ deploys = 0 /\ deploy_pc = "idle" /\ deploy_result = "none"

PackIdle == RunIdle /\ DriveIdle /\ ExtractIdle /\ DeployIdle

IdxInit ==
    /\ \E its \in SeqsUpTo(IdxItems, MaxItems), k \in 0..MaxCut :
          LET full == EncodeItems(its)
          IN  /\ k <= Len(full)
              /\ idx_bytes = SubSeq(full, 1, Len(full) - k)
              /\ items = its
              /\ cut = k
    /\ idx_pos = 0
    /\ word_bytes = <<>>
    /\ words = <<>>
    /\ idx_pc = "read_word"
    /\ DictIdle /\ ParseIdle /\ ConvIdle /\ PackIdle

\* the inner loop: read bytes up to and including the terminator
IdxReadWord ==
    /\ idx_pc = "read_word"
    /\ LET q == WordEnd(idx_bytes, idx_pos)
       IN  /\ word_bytes' = SubSeq(idx_bytes, idx_pos + 1, q)
           /\ idx_pos' = IF q < Len(idx_bytes) THEN q + 1 ELSE q
    /\ idx_pc' = "check_word"
    /\ UNCHANGED <<idx_bytes, words, items, cut, dictVars, parseVars,
                   convVars, packVars>>

\* the empty word is passed over with its offset and size, and the parse
\* goes on
IdxEmptyWordSkip ==
    /\ idx_pc = "check_word"
    /\ word_bytes = <<>>
    /\ idx_pos' = idx_pos + Len(FileRead(idx_bytes, idx_pos, 8))
    /\ idx_pc' = IF idx_pos < Len(idx_bytes) THEN "read_word" ELSE "returned"
    /\ UNCHANGED <<idx_bytes, word_bytes, words, items, cut,
                   dictVars, parseVars, convVars, packVars>>

\* the empty word goes on to the next iteration instead of ending the loop
IdxEmptyWordContinue ==
    /\ idx_pc = "check_word"
    /\ word_bytes = <<>>
    /\ idx_pc' = "read_word"
    /\ UNCHANGED <<idx_bytes, idx_pos, word_bytes, words, items, cut,
                   dictVars, parseVars, convVars, packVars>>

\* if not word_bytes: break
IdxEmptyWord ==
    /\ idx_pc = "check_word"
    /\ word_bytes = <<>>
    /\ idx_pc' = "returned"
    /\ UNCHANGED <<idx_bytes, idx_pos, word_bytes, words, items, cut,
                   dictVars, parseVars, convVars, packVars>>

\* except: continue
IdxDecodeFail ==
    /\ idx_pc = "check_word"
    /\ word_bytes # <<>>
    /\ ~Utf8Decode(word_bytes).ok
    /\ idx_pc' = "read_word"
    /\ UNCHANGED <<idx_bytes, idx_pos, word_bytes, words, items, cut,
                   dictVars, parseVars, convVars, packVars>>

\* read offset and size; break on a short read, else append
IdxReadFields ==
    /\ idx_pc = "check_word"
    /\ word_bytes # <<>>
    /\ Utf8Decode(word_bytes).ok
    /\ LET offset_data == FileRead(idx_bytes, idx_pos, 4)
           size_data == FileRead(idx_bytes, idx_pos + Len(offset_data), 4)
       IN  /\ idx_pos' = idx_pos + Len(offset_data) + Len(size_data)
           /\ IF FieldsComplete(offset_data, size_data)
              THEN /\ words' = Append(words, << Utf8Decode(word_bytes).text,
                                               UnpackBE(offset_data),
                                               UnpackBE(size_data) >>)
                   /\ idx_pc' = "read_word"
              ELSE /\ words' = words
                   /\ idx_pc' = "returned"
    /\ UNCHANGED <<idx_bytes, word_bytes, items, cut, dictVars, parseVars,
                   convVars, packVars>>

IdxNext == IdxReadWord \/ IdxEmptyWord \/ IdxDecodeFail \/ IdxReadFields

SpecIdx == IdxInit /\ [][IdxNext]_vars

\* read_idx_file is one sequential loop: a step that can be taken is taken
SpecIdxFair == SpecIdx /\ WF_vars(IdxNext)

(***************************************************************************)
(* str methods and the regular expressions of parse_stardict_entry         *)
(***************************************************************************)
\* str.isspace(), as used by str.strip(), str.split() and \s
IsSpace(c) ==
    \/ c \in {9, 10, 11, 12, 13, 28, 29, 30, 31, 32, 133, 160, 5760}
    \/ (c >= 8192 /\ c <= 8202)
    \/ c \in {8232, 8233, 8239, 8287, 12288}

\* \d on the ASCII range
IsDigit(c) == c >= 48 /\ c <= 57

RECURSIVE LStrip(_)
LStrip(s) ==
    IF s # <<>> /\ IsSpace(s[1]) THEN LStrip(Tail(s)) ELSE s

RECURSIVE RStrip(_)
RStrip(s) ==
    IF s # <<>> /\ IsSpace(s[Len(s)])
    THEN RStrip(SubSeq(s, 1, Len(s) - 1))
    ELSE s

\* str.strip()
Strip(s) == RStrip(LStrip(s))

Contains(s, c) == \E i \in 1..Len(s) : s[i] = c

\* s.split(c)[0]
BeforeFirst(s, c) ==
    IF Contains(s, c)
    THEN LET i == CHOOSE i \in 1..Len(s) :
                      s[i] = c /\ \A j \in 1..(i - 1) : s[j] # c
         IN  SubSeq(s, 1, i - 1)
    ELSE s

\* re.sub(open [^close]+ close, '', s): leftmost non-overlapping matches
RECURSIVE ReSubDelimited(_, _, _)
ReSubDelimited(s, open, close) ==
    IF s = <<>> THEN <<>>
    ELSE IF /\ s[1] = open /\ Len(s) >= 3 /\ s[2] # close
            /\ \E j \in 3..Len(s) : s[j] = close
         THEN LET j == CHOOSE j \in 3..Len(s) :
                           s[j] = close /\ \A k \in 3..(j - 1) : s[k] # close
              IN  ReSubDelimited(SubSeq(s, j + 1, Len(s)), open, close)
         ELSE <<s[1]>> \o ReSubDelimited(Tail(s), open, close)

\* number of leading characters of s that are digits
RECURSIVE LeadingDigits(_)
LeadingDigits(s) ==
    IF s # <<>> /\ IsDigit(s[1]) THEN 1 + LeadingDigits(Tail(s)) ELSE 0

\* re.sub(r'^\d+\.\s*', '', s)
StripOrdinal(s) ==
    LET d == LeadingDigits(s)
    IN  IF d >= 1 /\ Len(s) > d /\ s[d + 1] = DOT
        THEN LStrip(SubSeq(s, d + 2, Len(s)))
        ELSE s

\* ' '.join(s.split())
RECURSIVE Squeeze(_)
Squeeze(s) ==
    IF s = <<>> THEN <<>>
    ELSE IF IsSpace(s[1]) THEN <<SPACE>> \o Squeeze(LStrip(s))
    ELSE <<s[1]>> \o Squeeze(Tail(s))

CollapseWhitespace(s) == Squeeze(Strip(s))

(***************************************************************************)
(* read_dict_file                                                          *)
(***************************************************************************)
\* bytes.decode('latin-1'): every byte is the code point of its value
Latin1Decode(data) == [i \in 1..Len(data) |-> data[i]]

\* f.seek(offset); f.read(size), on the logical content of the file
DictData(bs, offset, size) == FileRead(bs, offset, size)

read_dict_file_utf8_only(bs, offset, size) ==
    LET utf8 == Utf8Decode(DictData(bs, offset, size))
    IN  IF utf8.ok THEN Strip(utf8.text) ELSE <<>>

read_dict_file(bs, offset, size) ==
    LET data == DictData(bs, offset, size)
        utf8 == Utf8Decode(data)
    IN  IF utf8.ok THEN Strip(utf8.text)
        ELSE Strip(Latin1Decode(data))

DictByteAlphabet == {0, 32, 97, 160, 195}

DictInit ==
    /\ dict_bytes \in SeqsUpTo(DictByteAlphabet, MaxDictLen)
    /\ dict_offset \in 0..1
    /\ dict_size \in 0..MaxDictLen
    /\ dict_result = <<>>
    /\ dict_pc = "call"
    /\ IdxIdle /\ ParseIdle /\ ConvIdle /\ PackIdle

ReadDict ==
    /\ dict_pc = "call"
    /\ dict_result' = read_dict_file(dict_bytes, dict_offset, dict_size)
    /\ dict_pc' = "returned"
    /\ UNCHANGED <<dict_bytes, dict_offset, dict_size, idxVars, parseVars,
                   convVars, packVars>>

DictNext == ReadDict

SpecDict == DictInit /\ [][DictNext]_vars

(***************************************************************************)
(* parse_stardict_entry                                                    *)
(***************************************************************************)
parse_stardict_entry(definition) ==
    LET no_tags == ReSubDelimited(definition, LT, GT)
        no_brackets == ReSubDelimited(no_tags, LBRACKET, RBRACKET)
        first_line == Strip(BeforeFirst(no_brackets, NEWLINE))
        primary == IF Contains(first_line, SEMICOLON)
                   THEN Strip(BeforeFirst(first_line, SEMICOLON))
                   ELSE first_line
        main_def == CollapseWhitespace(StripOrdinal(primary))
    IN  << main_def, no_brackets >>

ParseAlphabet ==
    {97, 49, DOT, SPACE, NEWLINE, SEMICOLON, LT, GT, LBRACKET, RBRACKET}

ParseInit ==
    /\ raw_definition \in SeqsUpTo(ParseAlphabet, MaxDefLen)
    /\ parsed = <<>>
    /\ reparsed = <<>>
    /\ parse_pc = "call"
    /\ IdxIdle /\ DictIdle /\ ConvIdle /\ PackIdle

ParseFirst ==
    /\ parse_pc = "call"
    /\ parsed' = parse_stardict_entry(raw_definition)
    /\ parse_pc' = "parsed"
    /\ UNCHANGED <<raw_definition, reparsed, idxVars, dictVars, convVars,
                   packVars>>

ParseAgain ==
    /\ parse_pc = "parsed"
    /\ reparsed' = parse_stardict_entry(parsed[1])
    /\ parse_pc' = "reparsed"
    /\ UNCHANGED <<raw_definition, parsed, idxVars, dictVars, convVars,
                   packVars>>

ParseNext == ParseFirst \/ ParseAgain

SpecParse == ParseInit /\ [][ParseNext]_vars

(***************************************************************************)
(* The destination database and the splitting helpers of the converters    *)
(***************************************************************************)
\* a buffered entry; rec is the index of the source record it came from
Entry(lemma, definition, rec) ==
    [lemma |-> lemma, definition |-> definition, rec |-> rec]

\* INSERT INTO dictionary_entries (lemma, definition, direction,
\* source_language, target_language), one row per entry of the batch
InsertRows(buffered, direction, sl, tl) ==
    [j \in 1..Len(buffered) |->
        [lemma |-> buffered[j].lemma, definition |-> buffered[j].definition,
         direction |-> direction, source_language |-> sl,
         target_language |-> tl, rec |-> buffered[j].rec]]

\* the environment may make a database write fail
CanFail == write_failures < MaxWriteFailures

\* sep in s
ContainsSeq(s, sep) ==
    \E k \in 1..(Len(s) - Len(sep) + 1) : SubSeq(s, k, k + Len(sep) - 1) = sep

\* s.split(sep)
RECURSIVE SplitOn(_, _)
SplitOn(s, sep) ==
    IF ContainsSeq(s, sep)
    THEN LET k == CHOOSE k \in 1..(Len(s) - Len(sep) + 1) :
                      /\ SubSeq(s, k, k + Len(sep) - 1) = sep
                      /\ \A m \in 1..(k - 1) :
                             SubSeq(s, m, m + Len(sep) - 1) # sep
         IN  << SubSeq(s, 1, k - 1) >>
                 \o SplitOn(SubSeq(s, k + Len(sep), Len(s)), sep)
    ELSE << s >>

StripAll(pieces) == [j \in 1..Len(pieces) |-> Strip(pieces[j])]

NonEmpty(s) == s # <<>>

(***************************************************************************)
(* convert_french_stardict.convert_stardict_to_bidirectional               *)
(***************************************************************************)
french_forward_rows(buffered) == InsertRows(buffered, "forward", "fr", "en")

french_reverse_rows(buffered) == InsertRows(buffered, "reverse", "en", "fr")

FrWords == { <<97>>, <<97, 32>> }
FrDictBytes == <<91, 98, 93, 97, 32, 98>>
FrSlices == { <<0, 3>>, <<3, 1>>, <<5, 1>>, <<4, 1>> }
FrIndexEntries == { <<w, sl[1], sl[2]>> : w \in FrWords, sl \in FrSlices }

ConvStart ==
    /\ consumed = 0
    /\ forward_batch = <<>> /\ reverse_batch = <<>> /\ batch = <<>>
    /\ db_rows = <<>> /\ committed = 0
    /\ forward_count = 0 /\ reverse_count = 0 /\ error_count = 0
    /\ write_failures = 0 /\ conv_pc = "loop"

FrInit ==
    /\ variant = "french" /\ source_lang = "fr" /\ target_lang = "en"
    /\ words \in SeqsUpTo(FrIndexEntries, MaxRecords)
    /\ dict_bytes = FrDictBytes
    /\ source_rows = <<>>
    /\ ConvStart
    /\ idx_bytes = <<>> /\ idx_pos = 0 /\ word_bytes = <<>>
    /\ idx_pc = "idle" /\ items = <<>> /\ cut = 0
    /\ dict_offset = 0 /\ dict_size = 0 /\ dict_result = <<>>
    /\ dict_pc = "idle"
    /\ ParseIdle /\ PackIdle

\* the basic pair: the index holds "chat" at offset 0, size 6, and the
\* .dict content is the bytes of "cat" followed by three 0x00
BasicPairWords == << << <<99, 104, 97, 116>>, 0, 6 >> >>

BasicPairDictBytes == <<99, 97, 116, NUL, NUL, NUL>>

FrBasicPairInit ==
    /\ variant = "french" /\ source_lang = "fr" /\ target_lang = "en"
    /\ words = BasicPairWords
    /\ dict_bytes = BasicPairDictBytes
    /\ source_rows = <<>>
    /\ ConvStart
    /\ idx_bytes = <<>> /\ idx_pos = 0 /\ word_bytes = <<>>
    /\ idx_pc = "idle" /\ items = <<>> /\ cut = 0
    /\ dict_offset = 0 /\ dict_size = 0 /\ dict_result = <<>>
    /\ dict_pc = "idle"
    /\ ParseIdle /\ PackIdle

\* the record of this iteration
FrWord == words[consumed + 1][1]

FrDefinition ==
    read_dict_file(dict_bytes, words[consumed + 1][2], words[consumed + 1][3])

FrCleanDef == parse_stardict_entry(FrDefinition)[1]

FrSkipsRawOnly ==
    FrDefinition = <<>> \/ Len(Strip(FrDefinition)) = 0

\* the two `continue` tests
FrSkips ==
    \/ FrDefinition = <<>> \/ Len(Strip(FrDefinition)) = 0
    \/ FrCleanDef = <<>> \/ Len(Strip(FrCleanDef)) = 0

\* forward_batch and reverse_batch after the two appends
FrForwardAppended ==
    Append(forward_batch,
           Entry(Strip(FrWord), Strip(FrCleanDef), consumed + 1))

FrReverseAppended ==
    IF FrCleanDef # FrWord
    THEN Append(reverse_batch,
                Entry(Strip(FrCleanDef), Strip(FrWord), consumed + 1))
    ELSE reverse_batch

FrInLoop ==
    variant = "french" /\ conv_pc = "loop" /\ consumed < Len(words)

\* empty raw definition or empty clean gloss: continue
FrSkipRecord ==
    /\ FrInLoop
    /\ FrSkips
    /\ consumed' = consumed + 1
    /\ UNCHANGED <<batch, variant, source_lang, target_lang,
                   source_rows,
                   forward_batch, reverse_batch, db_rows, committed,
                   forward_count, reverse_count, error_count,
                   write_failures, conv_pc>>
    /\ UNCHANGED <<idxVars, dictVars, parseVars, packVars>>

\* one iteration in which every database write that is due succeeds
FrProcessRecord ==
    /\ FrInLoop
    /\ ~FrSkips
    /\ LET fwd == Len(FrForwardAppended) >= batch_size
           rev == Len(FrReverseAppended) >= batch_size
           rows1 == IF fwd
                    THEN db_rows \o french_forward_rows(FrForwardAppended)
                    ELSE db_rows
           rows2 == IF rev
                    THEN rows1 \o french_reverse_rows(FrReverseAppended)
                    ELSE rows1
       IN  /\ forward_batch' = IF fwd THEN <<>> ELSE FrForwardAppended
           /\ reverse_batch' = IF rev THEN <<>> ELSE FrReverseAppended
           /\ forward_count' = IF fwd
                               THEN forward_count + Len(FrForwardAppended)
                               ELSE forward_count
           /\ reverse_count' = IF rev
                               THEN reverse_count + Len(FrReverseAppended)
                               ELSE reverse_count
           /\ db_rows' = rows2
           /\ committed' = IF rev THEN Len(rows2) ELSE committed
    /\ consumed' = consumed + 1
    /\ UNCHANGED <<batch, variant, source_lang, target_lang,
                   source_rows,
                   error_count, write_failures, conv_pc>>
    /\ UNCHANGED <<idxVars, dictVars, parseVars, packVars>>

\* the forward executemany raises after k rows: caught by the except of
\* the loop body, counted, and the loop continues
FrForwardFlushFails ==
    /\ FrInLoop
    /\ ~FrSkips
    /\ CanFail
    /\ Len(FrForwardAppended) >= batch_size
    /\ \E k \in 0..(Len(FrForwardAppended) - 1) :
          db_rows' = db_rows
                       \o SubSeq(french_forward_rows(FrForwardAppended), 1, k)
    /\ forward_batch' = FrForwardAppended
    /\ reverse_batch' = FrReverseAppended
    /\ error_count' = error_count + 1
    /\ write_failures' = write_failures + 1
    /\ consumed' = consumed + 1
    /\ UNCHANGED <<batch, variant, source_lang, target_lang,
                   source_rows, committed,
                   forward_count, reverse_count, conv_pc>>
    /\ UNCHANGED <<idxVars, dictVars, parseVars, packVars>>

\* the reverse executemany raises after k rows (the forward flush, if due,
\* was done): caught, counted, and the loop continues
FrReverseFlushFails ==
    /\ FrInLoop
    /\ ~FrSkips
    /\ CanFail
    /\ Len(FrReverseAppended) >= batch_size
    /\ LET fwd == Len(FrForwardAppended) >= batch_size
           rows1 == IF fwd
                    THEN db_rows \o french_forward_rows(FrForwardAppended)
                    ELSE db_rows
       IN  /\ forward_batch' = IF fwd THEN <<>> ELSE FrForwardAppended
           /\ forward_count' = IF fwd
                               THEN forward_count + Len(FrForwardAppended)
                               ELSE forward_count
           /\ \E k \in 0..(Len(FrReverseAppended) - 1) :
                 db_rows' = rows1
                     \o SubSeq(french_reverse_rows(FrReverseAppended), 1, k)
    /\ reverse_batch' = FrReverseAppended
    /\ error_count' = error_count + 1
    /\ write_failures' = write_failures + 1
    /\ consumed' = consumed + 1
    /\ UNCHANGED <<batch, variant, source_lang, target_lang,
                   source_rows, committed,
                   reverse_count, conv_pc>>
    /\ UNCHANGED <<idxVars, dictVars, parseVars, packVars>>

\* the periodic conn.commit() raises: caught, counted, the loop continues
FrCommitFails ==
    /\ FrInLoop
    /\ ~FrSkips
    /\ CanFail
    /\ Len(FrReverseAppended) >= batch_size
    /\ LET fwd == Len(FrForwardAppended) >= batch_size
           rows1 == IF fwd
                    THEN db_rows \o french_forward_rows(FrForwardAppended)
                    ELSE db_rows
       IN  /\ forward_batch' = IF fwd THEN <<>> ELSE FrForwardAppended
           /\ forward_count' = IF fwd
                               THEN forward_count + Len(FrForwardAppended)
                               ELSE forward_count
           /\ db_rows' = rows1 \o french_reverse_rows(FrReverseAppended)
    /\ reverse_batch' = <<>>
    /\ reverse_count' = reverse_count + Len(FrReverseAppended)
    /\ error_count' = error_count + 1
    /\ write_failures' = write_failures + 1
    /\ consumed' = consumed + 1
    /\ UNCHANGED <<batch, variant, source_lang, target_lang,
                   source_rows, committed,
                   conv_pc>>
    /\ UNCHANGED <<idxVars, dictVars, parseVars, packVars>>

CountDirection(rows, direction) ==
    Len(SelectSeq(rows, LAMBDA r : r.direction = direction))

\* after the loop: insert the remaining entries, commit, count, return
FrFinish ==
    /\ variant = "french" /\ conv_pc = "loop" /\ consumed = Len(words)
    /\ LET rows == db_rows \o french_forward_rows(forward_batch)
                           \o french_reverse_rows(reverse_batch)
       IN  /\ db_rows' = rows
           /\ committed' = Len(rows)
           /\ forward_count' = CountDirection(rows, "forward")
           /\ reverse_count' = CountDirection(rows, "reverse")
    /\ forward_batch' = forward_batch /\ reverse_batch' = reverse_batch
    /\ conv_pc' = "returned"
    /\ UNCHANGED <<batch, variant, source_lang, target_lang,
                   source_rows, consumed,
                   error_count, write_failures>>
    /\ UNCHANGED <<idxVars, dictVars, parseVars, packVars>>

\* a write after the loop raises: it propagates through the finally, and
\* conn.close() drops what was not committed
FrFinishFails ==
    /\ variant = "french" /\ conv_pc = "loop" /\ consumed = Len(words)
    /\ CanFail
    /\ db_rows' = SubSeq(db_rows, 1, committed)
    /\ write_failures' = write_failures + 1
    /\ conv_pc' = "raised"
    /\ UNCHANGED <<batch, variant, source_lang, target_lang,
                   source_rows, consumed,
                   forward_batch, reverse_batch, committed, forward_count,
                   reverse_count, error_count>>
    /\ UNCHANGED <<idxVars, dictVars, parseVars, packVars>>

FrNext ==
    \/ FrSkipRecord \/ FrProcessRecord \/ FrForwardFlushFails
    \/ FrReverseFlushFails \/ FrCommitFails \/ FrFinish \/ FrFinishFails

(***************************************************************************)
(* convert_to_bidirectional.convert_stardict_to_bidirectional              *)
(***************************************************************************)
forward_languages(src, tgt) == << src, tgt >>

reverse_languages_unswapped(src, tgt) == << src, tgt >>

reverse_languages(src, tgt) == << tgt, src >>

ForwardInsert(buffered) ==
    InsertRows(buffered, "forward",
               forward_languages(source_lang, target_lang)[1],
               forward_languages(source_lang, target_lang)[2])

ReverseInsert(buffered) ==
    InsertRows(buffered, "reverse",
               reverse_languages(source_lang, target_lang)[1],
               reverse_languages(source_lang, target_lang)[2])

\* the separators, in the order the code tries them
Separators == << <<SPACE, PIPE, SPACE>>, <<PIPE>>, <<SEMICOLON>>, <<COMMA>> >>

\* translations, as left by the for loop and the `if not translations`
BiTranslations(definition) ==
    LET present == {k \in 1..Len(Separators) :
                        ContainsSeq(definition, Separators[k])}
    IN  IF present = {} THEN << definition >>
        ELSE LET k == CHOOSE k \in present : \A m \in present : k <= m
                 pieces == SelectSeq(StripAll(SplitOn(definition,
                                                      Separators[k])),
                                     NonEmpty)
             IN  IF pieces = <<>> THEN << definition >> ELSE pieces

keeps_every_translation(translation, word) == translation # <<>>

\* if translation and translation != word
keeps_translation(translation, word) ==
    translation # <<>> /\ translation # word

BiReverseLemmas(word, definition) ==
    SelectSeq(BiTranslations(definition),
              LAMBDA t : keeps_translation(t, word))

BiWords == { <<97>>, <<32>> }

\* reverse_words[:10] in extract_reverse_translations
ReverseCap == 10

\* "b,c,d,...": one translation more than ReverseCap
ManyTranslations ==
    [j \in 1..(2 * ReverseCap + 1) |->
        IF j % 2 = 1 THEN 97 + (j + 1) \div 2 ELSE COMMA]

BiDefinitions ==
    { <<97>>, <<97, COMMA, 98>>, <<97, SPACE, PIPE, SPACE, 98>>,
      <<SEMICOLON>>, ManyTranslations }
BiLanguagePairs == { <<"de", "en">>, <<"es", "en">> }

SourceRows(ws, ds) == { <<w, d>> : w \in ws, d \in ds }

BiInit ==
    /\ variant = "bidir"
    /\ \E pair \in BiLanguagePairs :
          source_lang = pair[1] /\ target_lang = pair[2]
    /\ source_rows \in SeqsUpTo(SourceRows(BiWords, BiDefinitions), MaxRecords)
    /\ ConvStart
    /\ IdxIdle /\ DictIdle /\ ParseIdle /\ PackIdle

BiWord == Strip(source_rows[consumed + 1][1])

BiDefinition == Strip(source_rows[consumed + 1][2])

BiInLoop ==
    variant = "bidir" /\ conv_pc = "loop" /\ consumed < Len(source_rows)

\* if not word or not definition: continue (before and after the strip)
BiSkipRow ==
    /\ BiInLoop
    /\ (BiWord = <<>> \/ BiDefinition = <<>>)
    /\ consumed' = consumed + 1
    /\ UNCHANGED <<batch, variant, source_lang, target_lang,
                   source_rows,
                   forward_batch, reverse_batch, db_rows, committed,
                   forward_count, reverse_count, error_count,
                   write_failures, conv_pc>>
    /\ UNCHANGED <<idxVars, dictVars, parseVars, packVars>>

BiReverseEntries ==
    LET lemmas == BiReverseLemmas(BiWord, BiDefinition)
    IN  [j \in 1..Len(lemmas) |-> Entry(lemmas[j], BiWord, consumed + 1)]

\* one row: the forward INSERT, then one reverse INSERT per translation
BiProcessRow ==
    /\ BiInLoop
    /\ BiWord # <<>> /\ BiDefinition # <<>>
    /\ db_rows' = db_rows
          \o ForwardInsert(<< Entry(BiWord, BiDefinition, consumed + 1) >>)
          \o ReverseInsert(BiReverseEntries)
    /\ forward_count' = forward_count + 1
    /\ reverse_count' = reverse_count + Len(BiReverseEntries)
    /\ consumed' = consumed + 1
    /\ UNCHANGED <<batch, variant, source_lang, target_lang,
                   source_rows,
                   forward_batch, reverse_batch, committed, error_count,
                   write_failures, conv_pc>>
    /\ UNCHANGED <<idxVars, dictVars, parseVars, packVars>>

\* an INSERT of this row raises: nothing catches it, the finally closes
\* the connections and the uncommitted rows are dropped
BiInsertFails ==
    /\ BiInLoop
    /\ BiWord # <<>> /\ BiDefinition # <<>>
    /\ CanFail
    /\ db_rows' = SubSeq(db_rows, 1, committed)
    /\ write_failures' = write_failures + 1
    /\ conv_pc' = "raised"
    /\ UNCHANGED <<batch, variant, source_lang, target_lang,
                   source_rows, consumed,
                   forward_batch, reverse_batch, committed, forward_count,
                   reverse_count, error_count>>
    /\ UNCHANGED <<idxVars, dictVars, parseVars, packVars>>

\* dest_conn.commit() and return
BiFinish ==
    /\ variant = "bidir" /\ conv_pc = "loop" /\ consumed = Len(source_rows)
    /\ committed' = Len(db_rows)
    /\ conv_pc' = "returned"
    /\ UNCHANGED <<batch, variant, source_lang, target_lang,
                   source_rows, consumed,
                   forward_batch, reverse_batch, db_rows, forward_count,
                   reverse_count, error_count, write_failures>>
    /\ UNCHANGED <<idxVars, dictVars, parseVars, packVars>>

\* dest_conn.commit() raises
BiCommitFails ==
    /\ variant = "bidir" /\ conv_pc = "loop" /\ consumed = Len(source_rows)
    /\ CanFail
    /\ db_rows' = SubSeq(db_rows, 1, committed)
    /\ write_failures' = write_failures + 1
    /\ conv_pc' = "raised"
    /\ UNCHANGED <<batch, variant, source_lang, target_lang,
                   source_rows, consumed,
                   forward_batch, reverse_batch, committed, forward_count,
                   reverse_count, error_count>>
    /\ UNCHANGED <<idxVars, dictVars, parseVars, packVars>>

BiNext ==
    BiSkipRow \/ BiProcessRow \/ BiInsertFails \/ BiFinish \/ BiCommitFails

(***************************************************************************)
(* LanguagePackPipeline.convert_to_bidirectional                           *)
(***************************************************************************)
MaxParts == 3
MinLength == 2

\* part.split()[0] if part.split() else ''
RECURSIVE UpToSpace(_)
UpToSpace(s) ==
    IF s = <<>> \/ IsSpace(s[1]) THEN <<>>
    ELSE <<s[1]>> \o UpToSpace(Tail(s))

FirstWord(part) == UpToSpace(LStrip(part))

\* the (first_word, word) pairs appended for one source row
PipeReverseLemmas(word, definition) ==
    LET clean_def == ReSubDelimited(ReSubDelimited(definition, LT, GT),
                                    LPAREN, RPAREN)
        all_parts == SplitOn(clean_def, <<COMMA>>)
        parts == StripAll(SubSeq(all_parts, 1,
                                 IF Len(all_parts) < MaxParts
                                 THEN Len(all_parts) ELSE MaxParts))
        long_parts == SelectSeq(parts, LAMBDA p : Len(p) > MinLength)
        first_words == [j \in 1..Len(long_parts) |-> FirstWord(long_parts[j])]
    IN  SelectSeq(first_words,
                  LAMBDA f : f # <<>> /\ Len(f) > MinLength /\ f # word)

PipeWords == { <<97, 98, 99>>, <<32>> }
PipeDefinitions ==
    { <<>>, <<97, 98, 99>>, <<97, 98, 100, COMMA, 97, 98, 99>>,
      <<LPAREN, 120, RPAREN, 97, 98, 100>> }
PipeLanguagePairs == { <<"de", "en">>, <<"fr", "en">> }

PipeInit ==
    /\ variant = "pipeline"
    /\ \E pair \in PipeLanguagePairs :
          source_lang = pair[1] /\ target_lang = pair[2]
    /\ source_rows \in
          SeqsUpTo(SourceRows(PipeWords, PipeDefinitions), MaxRecords)
    /\ ConvStart
    /\ IdxIdle /\ DictIdle /\ ParseIdle /\ PackIdle

PipeWord == source_rows[consumed + 1][1]

PipeDefinition == source_rows[consumed + 1][2]

PipeInLoop ==
    variant = "pipeline" /\ conv_pc = "loop" /\ consumed < Len(source_rows)

PipeForwardAppended ==
    Append(forward_batch,
           Entry(Strip(PipeWord), Strip(PipeDefinition), consumed + 1))

PipeReverseAppended ==
    LET lemmas == PipeReverseLemmas(PipeWord, PipeDefinition)
    IN  reverse_batch
          \o [j \in 1..Len(lemmas) |->
                 Entry(Strip(lemmas[j]), Strip(PipeWord), consumed + 1)]

\* if not word or not definition: continue
PipeSkipRow ==
    /\ PipeInLoop
    /\ (PipeWord = <<>> \/ PipeDefinition = <<>>)
    /\ consumed' = consumed + 1
    /\ UNCHANGED <<batch, variant, source_lang, target_lang,
                   source_rows,
                   forward_batch, reverse_batch, db_rows, committed,
                   forward_count, reverse_count, error_count,
                   write_failures, conv_pc>>
    /\ UNCHANGED <<idxVars, dictVars, parseVars, packVars>>

\* one row of a fetchmany chunk, every write that is due succeeding
PipeProcessRow ==
    /\ PipeInLoop
    /\ PipeWord # <<>> /\ PipeDefinition # <<>>
    /\ LET fwd == Len(PipeForwardAppended) >= batch_size
           rev == Len(PipeReverseAppended) >= batch_size
           rows1 == IF fwd THEN db_rows \o ForwardInsert(PipeForwardAppended)
                    ELSE db_rows
           rows2 == IF rev THEN rows1 \o ReverseInsert(PipeReverseAppended)
                    ELSE rows1
       IN  /\ forward_batch' = IF fwd THEN <<>> ELSE PipeForwardAppended
           /\ reverse_batch' = IF rev THEN <<>> ELSE PipeReverseAppended
           /\ forward_count' = IF fwd
                               THEN forward_count + Len(PipeForwardAppended)
                               ELSE forward_count
           /\ reverse_count' = IF rev
                               THEN reverse_count + Len(PipeReverseAppended)
                               ELSE reverse_count
           /\ db_rows' = rows2
           /\ committed' = IF rev THEN Len(rows2) ELSE committed
    /\ consumed' = consumed + 1
    /\ UNCHANGED <<batch, variant, source_lang, target_lang,
                   source_rows,
                   error_count, write_failures, conv_pc>>
    /\ UNCHANGED <<idxVars, dictVars, parseVars, packVars>>

\* a flush or commit of this iteration raises: the except deletes the
\* output file and re-raises
PipeWriteFails ==
    /\ PipeInLoop
    /\ PipeWord # <<>> /\ PipeDefinition # <<>>
    /\ CanFail
    /\ \/ Len(PipeForwardAppended) >= batch_size
       \/ Len(PipeReverseAppended) >= batch_size
    /\ db_rows' = <<>>
    /\ committed' = 0
    /\ write_failures' = write_failures + 1
    /\ conv_pc' = "raised"
    /\ UNCHANGED <<batch, variant, source_lang, target_lang,
                   source_rows, consumed,
                   forward_batch, reverse_batch, forward_count,
                   reverse_count, error_count>>
    /\ UNCHANGED <<idxVars, dictVars, parseVars, packVars>>

\* insert the remaining entries, commit, return the running counts
PipeFinish ==
    /\ variant = "pipeline" /\ conv_pc = "loop"
    /\ consumed = Len(source_rows)
    /\ db_rows' = db_rows \o ForwardInsert(forward_batch)
                          \o ReverseInsert(reverse_batch)
    /\ committed' = Len(db_rows')
    /\ forward_count' = forward_count + Len(forward_batch)
    /\ reverse_count' = reverse_count + Len(reverse_batch)
    /\ conv_pc' = "returned"
    /\ UNCHANGED <<batch, variant, source_lang, target_lang,
                   source_rows, consumed,
                   forward_batch, reverse_batch, error_count,
                   write_failures>>
    /\ UNCHANGED <<idxVars, dictVars, parseVars, packVars>>

\* a final insert or the final commit raises
PipeFinishFails ==
    /\ variant = "pipeline" /\ conv_pc = "loop"
    /\ consumed = Len(source_rows)
    /\ CanFail
    /\ db_rows' = <<>>
    /\ committed' = 0
    /\ write_failures' = write_failures + 1
    /\ conv_pc' = "raised"
    /\ UNCHANGED <<batch, variant, source_lang, target_lang,
                   source_rows, consumed,
                   forward_batch, reverse_batch, forward_count,
                   reverse_count, error_count>>
    /\ UNCHANGED <<idxVars, dictVars, parseVars, packVars>>

PipeNext ==
    \/ PipeSkipRow \/ PipeProcessRow \/ PipeWriteFails \/ PipeFinish
    \/ PipeFinishFails

(***************************************************************************)
(* One build of a pack's database, as seen on the file system              *)
(*                                                                         *)
(* Path "app" is assets/language_packs/<name>.sqlite, the file the         *)
(* application reads; path "bidirectional" is                              *)
(* <pack_id>_bidirectional.sqlite next to it.  The entries of one source   *)
(* record count as one row.                                                *)
(***************************************************************************)
Paths == {"app", "bidirectional"}

\* what a reader finds at a path.  kind is "absent", "empty" (a file
\* without tables), "stardict" (the word table of the old format) or
\* "bidirectional" (dictionary_entries and pack_metadata); meta and rows
\* hold, for each committed row, the generation of the source it came from
File(kind, meta, rows) == [kind |-> kind, meta |-> meta, rows |-> rows]

Absent == File("absent", <<>>, <<>>)

EmptyFile == File("empty", <<>>, <<>>)

\* the source of an earlier build, and the source of this build
PreviousGen == "previous"

ThisGen == "this"

Gens(g, n) == [j \in 1..n |-> g]

\* a complete bidirectional database built from n records of generation g
PackDatabase(g, n) == File("bidirectional", <<g>>, Gens(g, n))

\* the old-format database convert_to_bidirectional.py converts
StarDictDatabase(g, n) == File("stardict", <<>>, Gens(g, n))

\* the tables exist, no row is committed
SchemaOnly == File("bidirectional", <<>>, <<>>)

StarDictKinds == {"ifo", "idx", "dict"}

StarDictFoundAny(files) == files # {}

\* not (not dict_files or not ifo_files or not idx_files)
StarDictFound(files) ==
    "dict" \in files /\ "ifo" \in files /\ "idx" \in files

\* the path sqlite3.connect opens for writing
DestPath == IF builder = "bidir" THEN "bidirectional" ELSE "app"

NoTxn == [meta |-> <<>>, rows |-> <<>>]

\* sqlite3.connect(path): a missing file is created, empty
Connect(f) == IF f.kind = "absent" THEN EmptyFile ELSE f

\* conn.commit()
Commit(f, t) == File(f.kind, f.meta \o t.meta, f.rows \o t.rows)

HasEntriesTable(f) == f.kind = "bidirectional"

\* the integrity check of an existing output ends in the bare except: the
\* COUNT(*) fails without the table, and with more than 1000 rows the
\* cursor is used after conn.close()
ReuseCheckRaises(f) ==
    ~HasEntriesTable(f) \/ Len(f.rows) > reuse_minimum

RunStart == txn = NoTxn /\ written = 0 /\ fs0 = fs

PreviousDatabases ==
    { PackDatabase(PreviousGen, k) : k \in 0..MaxSourceCount }

FrRunInit ==
    /\ builder = "french"
    /\ stardict_files \in SUBSET StarDictKinds
    /\ source_count \in 0..MaxSourceCount
    /\ \E prev \in {Absent} \cup PreviousDatabases :
          fs = [p \in Paths |-> IF p = "app" THEN prev ELSE Absent]
    /\ run_pc = "check_files"
    /\ RunStart
    /\ DeployIdle
    /\ IdxIdle /\ DictIdle /\ ParseIdle /\ ConvIdle /\ DriveIdle
    /\ ExtractIdle

PipeRunInit ==
    /\ builder = "pipeline"
    /\ stardict_files = {}
    /\ source_count \in 0..MaxSourceCount
    /\ \E prev \in {Absent, EmptyFile} \cup PreviousDatabases :
          fs = [p \in Paths |-> IF p = "app" THEN prev ELSE Absent]
    /\ run_pc = "check_existing"
    /\ RunStart
    /\ DeployIdle
    /\ IdxIdle /\ DictIdle /\ ParseIdle /\ ConvIdle /\ DriveIdle
    /\ ExtractIdle

BiRunInit ==
    /\ builder = "bidir"
    /\ stardict_files = {}
    /\ \E src \in { StarDictDatabase(ThisGen, n) : n \in 0..MaxSourceCount }
                     \cup PreviousDatabases,
          left \in {Absent, SchemaOnly} \cup PreviousDatabases :
          /\ fs = [p \in Paths |-> IF p = "app" THEN src ELSE left]
          /\ source_count = IF src.kind = "stardict" THEN Len(src.rows) ELSE 0
    /\ run_pc = "connect"
    /\ RunStart
    /\ DeployIdle
    /\ IdxIdle /\ DictIdle /\ ParseIdle /\ ConvIdle /\ DriveIdle
    /\ ExtractIdle

\* convert_french_stardict: the three globs and the raise
RunCheckFiles ==
    /\ builder = "french" /\ run_pc = "check_files"
    /\ run_pc' = IF StarDictFound(stardict_files) THEN "connect" ELSE "raised"
    /\ UNCHANGED <<builder, stardict_files, fs, fs0, txn, source_count,
                   written>>
    /\ UNCHANGED <<deployVars, idxVars, dictVars, parseVars,
                   convVars, driveVars,
                   extractVars>>

\* the pipeline: if output_path.exists(): ... except: output_path.unlink()
RunCheckExisting ==
    /\ builder = "pipeline" /\ run_pc = "check_existing"
    /\ fs' = IF fs["app"].kind # "absent" /\ ReuseCheckRaises(fs["app"])
             THEN [fs EXCEPT !["app"] = Absent]
             ELSE fs
    /\ run_pc' = "connect"
    /\ UNCHANGED <<builder, stardict_files, fs0, txn, source_count, written>>
    /\ UNCHANGED <<deployVars, idxVars, dictVars, parseVars,
                   convVars, driveVars,
                   extractVars>>

\* sqlite3.connect of the destination (and, in convert_to_bidirectional.py,
\* of the source before it)
RunConnect ==
    /\ run_pc = "connect"
    /\ fs' = IF builder = "bidir"
             THEN [p \in Paths |-> Connect(fs[p])]
             ELSE [fs EXCEPT !["app"] = Connect(@)]
    /\ run_pc' = IF builder = "bidir" THEN "check_source" ELSE "schema"
    /\ UNCHANGED <<builder, stardict_files, fs0, txn, source_count, written>>
    /\ UNCHANGED <<deployVars, idxVars, dictVars, parseVars,
                   convVars, driveVars,
                   extractVars>>

\* convert_to_bidirectional.py: raise when the source has no dict or word
\* table
RunCheckSource ==
    /\ builder = "bidir" /\ run_pc = "check_source"
    /\ run_pc' = IF fs["app"].kind = "stardict" THEN "schema" ELSE "raised"
    /\ UNCHANGED <<builder, stardict_files, fs, fs0, txn, source_count,
                   written>>
    /\ UNCHANGED <<deployVars, idxVars, dictVars, parseVars,
                   convVars, driveVars,
                   extractVars>>

\* CREATE TABLE dictionary_entries ...; CREATE TABLE pack_metadata ...;
\* INSERT INTO pack_metadata.  The CREATE statements take effect at once,
\* the INSERT opens the transaction.  With the table already there the
\* first CREATE raises; the except of the pipeline deletes the output.
RunCreateSchema ==
    /\ run_pc = "schema"
    /\ IF HasEntriesTable(fs[DestPath])
       THEN /\ fs' = IF builder = "pipeline"
                     THEN [fs EXCEPT !["app"] = Absent]
                     ELSE fs
            /\ txn' = txn
            /\ run_pc' = "raised"
       ELSE /\ fs' = [fs EXCEPT ![DestPath] = SchemaOnly]
            /\ txn' = [meta |-> <<ThisGen>>, rows |-> <<>>]
            /\ run_pc' = "loop"
    /\ UNCHANGED <<builder, stardict_files, fs0, source_count, written>>
    /\ UNCHANGED <<deployVars, idxVars, dictVars, parseVars,
                   convVars, driveVars,
                   extractVars>>

\* one source record: its rows are inserted; the batching converters
\* commit every batch_size records, convert_to_bidirectional.py only at
\* the end
RunInsert ==
    /\ run_pc = "loop" /\ written < source_count
    /\ LET rows == Append(txn.rows, ThisGen)
       IN  IF builder # "bidir" /\ Len(rows) >= batch_size
           THEN /\ fs' = [fs EXCEPT ![DestPath] =
                             Commit(@, [meta |-> txn.meta, rows |-> rows])]
                /\ txn' = NoTxn
           ELSE /\ fs' = fs
                /\ txn' = [txn EXCEPT !.rows = rows]
    /\ written' = written + 1
    /\ UNCHANGED <<builder, stardict_files, fs0, source_count, run_pc>>
    /\ UNCHANGED <<deployVars, idxVars, dictVars, parseVars,
                   convVars, driveVars,
                   extractVars>>

\* after the loop: the remaining rows and the final commit
RunFinish ==
    /\ run_pc = "loop" /\ written = source_count
    /\ fs' = [fs EXCEPT ![DestPath] = Commit(@, txn)]
    /\ txn' = NoTxn
    /\ run_pc' = IF builder = "bidir" THEN "unlink" ELSE "returned"
    /\ UNCHANGED <<builder, stardict_files, fs0, source_count, written>>
    /\ UNCHANGED <<deployVars, idxVars, dictVars, parseVars,
                   convVars, driveVars,
                   extractVars>>

\* a database write raises and leaves the function (in the French
\* converter only a write after the loop does): close() drops the
\* transaction, and the except of the pipeline deletes the output
RunWriteFails ==
    /\ run_pc = "loop"
    /\ builder = "french" => written = source_count
    /\ txn' = NoTxn
    /\ fs' = IF builder = "pipeline"
             THEN [fs EXCEPT !["app"] = Absent]
             ELSE fs
    /\ run_pc' = "write_raised"
    /\ UNCHANGED <<builder, stardict_files, fs0, source_count, written>>
    /\ UNCHANGED <<deployVars, idxVars, dictVars, parseVars,
                   convVars, driveVars,
                   extractVars>>

\* convert_to_bidirectional.py: source_db_path.unlink()
RunUnlinkSource ==
    /\ builder = "bidir" /\ run_pc = "unlink"
    /\ fs' = [fs EXCEPT !["app"] = Absent]
    /\ run_pc' = "rename"
    /\ UNCHANGED <<builder, stardict_files, fs0, txn, source_count, written>>
    /\ UNCHANGED <<deployVars, idxVars, dictVars, parseVars,
                   convVars, driveVars,
                   extractVars>>

\* convert_to_bidirectional.py: bidirectional_path.rename(source_db_path)
RunRename ==
    /\ builder = "bidir" /\ run_pc = "rename"
    /\ fs' = [fs EXCEPT !["app"] = fs["bidirectional"],
                        !["bidirectional"] = Absent]
    /\ run_pc' = "returned"
    /\ UNCHANGED <<builder, stardict_files, fs0, txn, source_count, written>>
    /\ UNCHANGED <<deployVars, idxVars, dictVars, parseVars,
                   convVars, driveVars,
                   extractVars>>

RunInit == FrRunInit \/ PipeRunInit \/ BiRunInit

RunNext ==
    \/ RunCheckFiles \/ RunCheckExisting \/ RunConnect \/ RunCheckSource
    \/ RunCreateSchema \/ RunInsert \/ RunFinish \/ RunWriteFails
    \/ RunUnlinkSource \/ RunRename

SpecRun == RunInit /\ [][RunNext]_vars

(***************************************************************************)
(* The multi-pack drivers: LanguagePackPipeline.run_pipeline (with         *)
(* process_language_pack), create_all_packs, consolidate_language_packs    *)
(*                                                                         *)
(* The configured packs are numbered 1..pack_count in configuration order. *)
(***************************************************************************)
Drivers == {"run_pipeline", "create_all_packs", "consolidate_language_packs"}

\* the pack of the current iteration
pack == pack_index + 1

\* the files of a pack in assets/language_packs
Artifact(p, kind) == << p, kind >>

\* consolidate_language_packs: the conversions, a file name being
\* << stem, suffix >>
conversions ==
    << [pack_id |-> "de-en", source_file |-> << "de-en", "sqlite" >>],
       [pack_id |-> "es-en", source_file |-> << "eng-spa", "sqlite" >>] >>

\* Path.with_suffix: the suffix of the name is replaced
with_suffix(path, suffix) == << path[1], suffix >>

\* a file of the assets directory of consolidate_language_packs, member
\* being the name stored in an archive
AssetFile(name, member) == [name |-> name, member |-> member]

\* the old-format files the clean-up removes
old_files ==
    { << "en-de", "sqlite" >>, << "en-de", "sqlite.zip" >>,
      << "en-es", "sqlite.zip" >>, << "es-en", "sqlite.zip" >> }

\* the file a registry entry's download_url names
DownloadName(id) == << id, "sqlite.zip" >>

\* what the assets directory may hold before the consolidation: the source
\* databases and archives of an earlier release
InitialAssets ==
    { AssetFile(conversions[k].source_file, <<>>) :
         k \in 1..Len(conversions) }
    \cup { AssetFile(DownloadName(id), << id, "sqlite" >>) :
              id \in {"es-en", "en-de"} }

\* the registry file before the run
InitialRegistries ==
    [ run_pipeline |-> {<<>>, << 1 >>},
      create_all_packs |-> {<<>>},
      consolidate_language_packs |-> {<<>>, << "de-en" >>} ]

RECURSIVE Occurrences(_, _)
Occurrences(s, p) ==
    IF s = <<>> THEN 0
    ELSE (IF s[1] = p THEN 1 ELSE 0) + Occurrences(Tail(s), p)

DriveInit ==
    /\ driver \in Drivers
    /\ pack_count \in IF driver = "consolidate_language_packs"
                      THEN {Len(conversions)} ELSE 1..MaxPacks
    /\ pack_index = 0
    /\ drive_pc = "next"
    /\ attempts = <<>> /\ results = <<>>
    /\ successful_packs = <<>> /\ failed_packs = <<>>
    /\ output_files \in IF driver = "consolidate_language_packs"
                        THEN SUBSET InitialAssets ELSE {{}}
    /\ package_failed = {}
    /\ drive_registry \in InitialRegistries[driver]
    /\ uploads = <<>> /\ passed = {}
    /\ DeployIdle
    /\ IdxIdle /\ DictIdle /\ ParseIdle /\ ConvIdle /\ RunIdle
    /\ ExtractIdle

\* the head of the for loop
DriveNextPack ==
    /\ drive_pc = "next" /\ pack_index < pack_count
    /\ attempts' = Append(attempts, pack)
    /\ drive_pc' = CASE driver = "run_pipeline" -> "build"
                     [] driver = "create_all_packs" -> "create"
                     [] driver = "consolidate_language_packs" -> "exists"
    /\ UNCHANGED <<driver, pack_count, pack_index, results, successful_packs,
                   failed_packs, output_files, package_failed>>
    /\ UNCHANGED <<drive_registry, uploads, passed>>
    /\ UNCHANGED <<deployVars, idxVars, dictVars, parseVars, convVars,
                   runVars, extractVars>>

\* the loop is exhausted
DriveEnd ==
    /\ drive_pc = "next" /\ pack_index = pack_count
    /\ drive_pc' = CASE driver = "run_pipeline" -> "update_registry"
                     [] driver = "create_all_packs" -> "done"
                     [] driver = "consolidate_language_packs" -> "cleanup"
    /\ UNCHANGED <<driver, pack_count, pack_index, attempts, results,
                   successful_packs, failed_packs, output_files,
                   package_failed>>
    /\ UNCHANGED <<drive_registry, uploads, passed>>
    /\ UNCHANGED <<deployVars, idxVars, dictVars, parseVars, convVars,
                   runVars, extractVars>>

\* process_language_pack returns result with success False, and run_pipeline
\* stores it and appends the pack to failed_packs
PipelineFailed ==
    /\ results' = Append(results, << pack, FALSE >>)
    /\ failed_packs' = Append(failed_packs, pack)
    /\ successful_packs' = successful_packs
    /\ pack_index' = pack_index + 1
    /\ drive_pc' = "next"
    /\ passed' = passed

\* Step 1: build_stardict_pack returns the database or None
PipelineBuild ==
    /\ driver = "run_pipeline" /\ drive_pc = "build"
    /\ \E built \in BOOLEAN :
          IF built
          THEN /\ drive_pc' = "convert"
               /\ passed' = passed \cup {<< pack, "build" >>}
               /\ UNCHANGED <<pack_index, results, successful_packs,
                              failed_packs>>
          ELSE PipelineFailed
    /\ UNCHANGED <<driver, pack_count, attempts, output_files,
                   package_failed>>
    /\ UNCHANGED <<drive_registry, uploads>>
    /\ UNCHANGED <<deployVars, idxVars, dictVars, parseVars, convVars,
                   runVars, extractVars>>

\* Step 2: convert_to_bidirectional returns, or deletes its output and
\* raises
PipelineConvert ==
    /\ driver = "run_pipeline" /\ drive_pc = "convert"
    /\ \E converted \in BOOLEAN :
          IF converted
          THEN /\ output_files' = output_files \cup {Artifact(pack, "sqlite")}
               /\ drive_pc' = "verify"
               /\ passed' = passed \cup {<< pack, "convert" >>}
               /\ UNCHANGED <<pack_index, results, successful_packs,
                              failed_packs>>
          ELSE /\ output_files' = output_files \ {Artifact(pack, "sqlite")}
               /\ PipelineFailed
    /\ UNCHANGED <<driver, pack_count, attempts, package_failed>>
    /\ UNCHANGED <<drive_registry, uploads>>
    /\ UNCHANGED <<deployVars, idxVars, dictVars, parseVars, convVars,
                   runVars, extractVars>>

\* Step 3: comprehensive_verification
PipelineVerify ==
    /\ driver = "run_pipeline" /\ drive_pc = "verify"
    /\ \E valid \in BOOLEAN :
          IF valid
          THEN /\ drive_pc' = "package"
               /\ passed' = passed \cup {<< pack, "verify" >>}
               /\ UNCHANGED <<pack_index, results, successful_packs,
                              failed_packs>>
          ELSE PipelineFailed
    /\ UNCHANGED <<driver, pack_count, attempts, output_files,
                   package_failed>>
    /\ UNCHANGED <<drive_registry, uploads>>
    /\ UNCHANGED <<deployVars, idxVars, dictVars, parseVars, convVars,
                   runVars, extractVars>>

\* how create_zip_package can end: it returns, or an exception leaves it
\* from ZipFile(zip_path, 'w'), from zip_ref.write, or from the checksum
PackageOutcomes ==
    {"returned", "open_raises", "write_raises", "checksum_raises"}

\* the file left at zip_path
ZipLeft(outcome) ==
    CASE outcome = "returned" -> {"zip"}
      [] outcome = "open_raises" -> {}
      [] outcome = "write_raises" -> {"partial_zip"}
      [] outcome = "checksum_raises" -> {"zip"}

\* Steps 4 and 5: create_zip_package, then success or the except that only
\* sets result['error']
PipelinePackage ==
    /\ driver = "run_pipeline" /\ drive_pc = "package"
    /\ \E outcome \in PackageOutcomes :
          /\ output_files' = output_files
                \cup { Artifact(pack, k) : k \in ZipLeft(outcome) }
          /\ IF outcome = "returned"
             THEN /\ results' = Append(results, << pack, TRUE >>)
                  /\ successful_packs' = Append(successful_packs, pack)
                  /\ failed_packs' = failed_packs
                  /\ pack_index' = pack_index + 1
                  /\ drive_pc' = "next"
                  /\ package_failed' = package_failed
                  /\ passed' = passed \cup {<< pack, "package" >>}
             ELSE /\ PipelineFailed
                  /\ package_failed' = package_failed \cup {pack}
    /\ UNCHANGED <<driver, pack_count, attempts>>
    /\ UNCHANGED <<drive_registry, uploads>>
    /\ UNCHANGED <<deployVars, idxVars, dictVars, parseVars, convVars,
                   runVars, extractVars>>

\* create_all_packs: create_language_pack returns the pack info (the pack
\* is appended to all_pack_info and successful_packs) or raises, before or
\* while the zip is written (the pack is appended to failed_packs)
CreateAllPack ==
    /\ driver = "create_all_packs" /\ drive_pc = "create"
    /\ \E outcome \in {"returned", "raises", "write_raises"} :
          /\ output_files' = output_files
                \cup { Artifact(pack, k) :
                         k \in IF outcome = "raises" THEN {}
                               ELSE ZipLeft(outcome) }
          /\ IF outcome = "returned"
             THEN /\ results' = Append(results, << pack, TRUE >>)
                  /\ successful_packs' = Append(successful_packs, pack)
                  /\ failed_packs' = failed_packs
                  /\ pack_index' = pack_index
                  /\ drive_pc' = "save_info"
             ELSE /\ results' = results
                  /\ successful_packs' = successful_packs
                  /\ failed_packs' = Append(failed_packs, pack)
                  /\ pack_index' = pack_index + 1
                  /\ drive_pc' = "next"
    /\ UNCHANGED <<driver, pack_count, attempts, package_failed>>
    /\ UNCHANGED <<drive_registry, uploads, passed>>
    /\ UNCHANGED <<deployVars, idxVars, dictVars, parseVars, convVars,
                   runVars, extractVars>>

\* create_all_packs: the pack's _info.json is written inside the same try;
\* when that raises the except appends the pack to failed_packs
CreateAllSaveInfo ==
    /\ driver = "create_all_packs" /\ drive_pc = "save_info"
    /\ \E saved \in BOOLEAN :
          IF saved
          THEN /\ output_files' = output_files \cup {Artifact(pack, "info")}
               /\ failed_packs' = failed_packs
          ELSE /\ output_files' = output_files
               /\ failed_packs' = Append(failed_packs, pack)
    /\ pack_index' = pack_index + 1
    /\ drive_pc' = "next"
    /\ UNCHANGED <<driver, pack_count, attempts, results, successful_packs,
                   package_failed>>
    /\ UNCHANGED <<drive_registry, uploads, passed>>
    /\ UNCHANGED <<deployVars, idxVars, dictVars, parseVars, convVars,
                   runVars, extractVars>>

\* the ids update_registry enters: the packs whose result has success
RECURSIVE RegistryIdsAll(_)
RegistryIdsAll(rs) ==
    IF rs = <<>> THEN <<>>
    ELSE << rs[1][1] >> \o RegistryIdsAll(Tail(rs))

RECURSIVE RegistryIds(_)
RegistryIds(rs) ==
    IF rs = <<>> THEN <<>>
    ELSE (IF rs[1][2] THEN << rs[1][1] >> ELSE <<>>) \o RegistryIds(Tail(rs))

\* run_pipeline: update_registry(self.results) writes a fresh registry, or
\* the write raises out of run_pipeline with the file truncated
PipelineUpdateRegistry ==
    /\ driver = "run_pipeline" /\ drive_pc = "update_registry"
    /\ \E saved \in BOOLEAN :
          IF saved
          THEN /\ drive_registry' = RegistryIds(results)
               /\ drive_pc' = "upload"
          ELSE /\ drive_registry' = <<>>
               /\ drive_pc' = "raised"
    /\ UNCHANGED <<driver, pack_count, pack_index, attempts, results,
                   successful_packs, failed_packs, output_files,
                   package_failed, uploads, passed>>
    /\ UNCHANGED <<deployVars, idxVars, dictVars, parseVars, convVars,
                   runVars, extractVars>>

\* run_pipeline: if self.successful_packs: upload_to_github(...)
PipelineUpload ==
    /\ driver = "run_pipeline" /\ drive_pc = "upload"
    /\ uploads' = IF successful_packs # <<>>
                  THEN Append(uploads, successful_packs) ELSE uploads
    /\ drive_pc' = "done"
    /\ UNCHANGED <<driver, pack_count, pack_index, attempts, results,
                   successful_packs, failed_packs, output_files,
                   package_failed, drive_registry, passed>>
    /\ UNCHANGED <<deployVars, idxVars, dictVars, parseVars, convVars,
                   runVars, extractVars>>

\* consolidate_language_packs: if not source_path.exists(): continue
ConsolidateExists ==
    /\ driver = "consolidate_language_packs" /\ drive_pc = "exists"
    /\ IF \E f \in output_files : f.name = conversions[pack].source_file
       THEN drive_pc' = "convert" /\ pack_index' = pack_index
       ELSE drive_pc' = "next" /\ pack_index' = pack_index + 1
    /\ UNCHANGED <<driver, pack_count, attempts, results, successful_packs,
                   failed_packs, output_files, package_failed>>
    /\ UNCHANGED <<drive_registry, uploads, passed>>
    /\ UNCHANGED <<deployVars, idxVars, dictVars, parseVars, convVars,
                   runVars, extractVars>>

\* create_bidirectional_zip: the archive is named after db_path and holds
\* the database as <pack_id>.sqlite
create_bidirectional_zip(db_path, pack_id) ==
    AssetFile(with_suffix(db_path, "sqlite.zip"), << pack_id, "sqlite" >>)

\* consolidate_language_packs: the conversion and the zip succeed (the pack
\* info is appended to results) or one of them raises (printed, continue)
ConsolidateConvert ==
    /\ driver = "consolidate_language_packs" /\ drive_pc = "convert"
    /\ \E converted \in BOOLEAN :
          IF converted
          THEN LET zip == create_bidirectional_zip(
                              conversions[pack].source_file,
                              conversions[pack].pack_id)
               IN /\ results' = Append(results, << pack, TRUE >>)
                  /\ output_files' =
                        { f \in output_files : f.name # zip.name }
                            \cup {zip}
          ELSE /\ results' = results
               /\ output_files' = output_files
    /\ pack_index' = pack_index + 1
    /\ drive_pc' = "next"
    /\ UNCHANGED <<driver, pack_count, attempts, successful_packs,
                   failed_packs, package_failed>>
    /\ UNCHANGED <<drive_registry, uploads, passed>>
    /\ UNCHANGED <<deployVars, idxVars, dictVars, parseVars, convVars,
                   runVars, extractVars>>

\* consolidate_language_packs: every old-format file that exists is
\* unlinked
ConsolidateCleanup ==
    /\ driver = "consolidate_language_packs" /\ drive_pc = "cleanup"
    /\ output_files' = { f \in output_files : f.name \notin old_files }
    /\ drive_pc' = "registry"
    /\ UNCHANGED <<driver, pack_count, pack_index, attempts, results,
                   successful_packs, failed_packs, package_failed,
                   drive_registry, uploads, passed>>
    /\ UNCHANGED <<deployVars, idxVars, dictVars, parseVars, convVars,
                   runVars, extractVars>>

\* consolidate_language_packs: one entry per result is appended to the
\* packs of the registry
ConsolidateRegistry ==
    /\ driver = "consolidate_language_packs" /\ drive_pc = "registry"
    /\ drive_registry' = drive_registry
          \o [ k \in 1..Len(results) |-> conversions[results[k][1]].pack_id ]
    /\ drive_pc' = "done"
    /\ UNCHANGED <<driver, pack_count, pack_index, attempts, results,
                   successful_packs, failed_packs, output_files,
                   package_failed, uploads, passed>>
    /\ UNCHANGED <<deployVars, idxVars, dictVars, parseVars, convVars,
                   runVars, extractVars>>

DriveNext ==
    \/ DriveNextPack \/ DriveEnd
    \/ PipelineBuild \/ PipelineConvert \/ PipelineVerify \/ PipelinePackage
    \/ PipelineUpdateRegistry \/ PipelineUpload
    \/ CreateAllPack \/ CreateAllSaveInfo
    \/ ConsolidateExists \/ ConsolidateConvert
    \/ ConsolidateCleanup \/ ConsolidateRegistry

SpecDrive == DriveInit /\ [][DriveNext]_vars

(***************************************************************************)
(* create_bidirectional_packs.extract_reverse_translations                 *)
(***************************************************************************)
\* separators = [';', '|', ',', '\n']
ExtractSeparators == << <<SEMICOLON>>, <<PIPE>>, <<COMMA>>, <<NEWLINE>> >>

\* new_words.extend(word.split(sep)) for every word of words
RECURSIVE SplitEach(_, _)
SplitEach(ws, sep) ==
    IF ws = <<>> THEN <<>>
    ELSE SplitOn(ws[1], sep) \o SplitEach(Tail(ws), sep)

\* for sep in separators: ... words = new_words
RECURSIVE SplitOnAll(_, _)
SplitOnAll(ws, seps) ==
    IF seps = <<>> THEN ws
    ELSE SplitOnAll(SplitEach(ws, seps[1]), Tail(seps))

\* str.isalpha() and str.isdigit() of one character, code points up to 591
IsAlphaChar(c) ==
    \/ (c >= 65 /\ c <= 90) \/ (c >= 97 /\ c <= 122)
    \/ c \in {170, 181, 186}
    \/ (c >= 192 /\ c <= 214) \/ (c >= 216 /\ c <= 246)
    \/ (c >= 248 /\ c <= 591)

IsDigitChar(c) == (c >= 48 /\ c <= 57) \/ c \in {178, 179, 185}

IsAlpha(s) == s # <<>> /\ \A i \in 1..Len(s) : IsAlphaChar(s[i])

IsDigitString(s) == s # <<>> /\ \A i \in 1..Len(s) : IsDigitChar(s[i])

\* len(word) > 2
MinWordLength == 2

\* ['ä', 'ö', 'ü', 'ß', 'ñ', 'á', 'é', 'í', 'ó', 'ú']
NonEnglishChars == {228, 246, 252, 223, 241, 225, 233, 237, 243, 250}

\* len(word) > 2 and not word.isdigit() and word.isalpha()
IsWord(word) ==
    Len(word) > MinWordLength /\ ~IsDigitString(word) /\ IsAlpha(word)

\* the target_lang == 'en' branch
PassesLanguageFilter(word, lang) ==
    lang = "en" => \A i \in 1..Len(word) : word[i] \notin NonEnglishChars

extract_reverse_translations(definition, lang) ==
    LET clean_def == ReSubDelimited(definition, LT, GT)
        pieces == StripAll(SplitOnAll(<< clean_def >>, ExtractSeparators))
        kept == SelectSeq(pieces,
                    LAMBDA w : IsWord(w) /\ PassesLanguageFilter(w, lang))
    IN  SubSeq(kept, 1, IF Len(kept) < ReverseCap THEN Len(kept)
                        ELSE ReverseCap)

\* the definitions given to the function: up to MaxPieces pieces, each
\* followed by a separator, and one of ReverseCap + 1 words
ExtractPieces ==
    { <<97, 98, 99>>, <<97, 233, 99>>, <<97, 232, 99>>, <<97, 98>>,
      <<97, SPACE, 99>>, <<LT, 98, GT, 97, 98, 99>> }

ExtractJoiners == { <<COMMA, SPACE>>, <<SEMICOLON>>, <<PIPE>> }

RECURSIVE JoinPieces(_)
JoinPieces(its) ==
    IF its = <<>> THEN <<>>
    ELSE its[1][1] \o its[1][2] \o JoinPieces(Tail(its))

ManyWords ==
    JoinPieces([j \in 1..(ReverseCap + 1) |-> << <<97, 98, 99>>, <<COMMA>> >>])

ExtractInit ==
    /\ \/ \E its \in SeqsUpTo(ExtractPieces \X ExtractJoiners, MaxPieces) :
             ext_definition = JoinPieces(its)
       \/ ext_definition = ManyWords
    /\ ext_target_lang \in {"en", "de"}
    /\ reverse_words = <<>>
    /\ ext_pc = "call"
    /\ DeployIdle
    /\ IdxIdle /\ DictIdle /\ ParseIdle /\ ConvIdle /\ RunIdle /\ DriveIdle

Extract ==
    /\ ext_pc = "call"
    /\ reverse_words' =
          extract_reverse_translations(ext_definition, ext_target_lang)
    /\ ext_pc' = "returned"
    /\ UNCHANGED <<ext_definition, ext_target_lang>>
    /\ UNCHANGED <<deployVars, idxVars, dictVars, parseVars,
                   convVars, runVars,
                   driveVars>>

ExtractNext == Extract

SpecExtract == ExtractInit /\ [][ExtractNext]_vars

(***************************************************************************)
(* SingleLanguageGenerator.convert_to_bidirectional                        *)
(***************************************************************************)
SLASH == 47

\* len(term) > 2
MinTermLength == 2

\* position of the first c in s at or after p, 0 when there is none
IndexFrom(s, c, p) ==
    IF \E k \in p..Len(s) : s[k] = c
    THEN CHOOSE k \in p..Len(s) : s[k] = c /\ \A m \in p..(k - 1) : s[m] # c
    ELSE 0

\* re.findall(r'<[^>]*>([^<]+)</[^>]*>', s), scanning from position p
RECURSIVE FindTerms(_, _)
FindTerms(s, p) ==
    IF p > Len(s) THEN <<>>
    ELSE LET gt == IF s[p] = LT THEN IndexFrom(s, GT, p + 1) ELSE 0
             lt == IF gt > 0 THEN IndexFrom(s, LT, gt + 1) ELSE 0
             close == IF lt > gt + 1 /\ lt < Len(s) /\ s[lt + 1] = SLASH
                      THEN IndexFrom(s, GT, lt + 2)
                      ELSE 0
         IN  IF close > 0
             THEN << SubSeq(s, gt + 1, lt - 1) >> \o FindTerms(s, close + 1)
             ELSE FindTerms(s, p + 1)

\* the stripped terms that pass
\* len(term) > 2 and term.replace(' ', '').isalpha()
SingleTerms(definition) ==
    IF Contains(definition, LT) /\ Contains(definition, GT)
    THEN SelectSeq(StripAll(FindTerms(definition, 1)),
                   LAMBDA t : /\ Len(t) > MinTermLength
                              /\ IsAlpha(SelectSeq(t, LAMBDA c : c # SPACE)))
    ELSE <<>>

SingleWords == { <<97, 98>>, <<32>> }

\* "", "abc", "<b>abc</b>", "<b>abc</b><i>abd</i>"
SingleDefinitions ==
    { <<>>, <<97, 98, 99>>,
      <<LT, 98, GT, 97, 98, 99, LT, SLASH, 98, GT>>,
      <<LT, 98, GT, 97, 98, 99, LT, SLASH, 98, GT,
        LT, 105, GT, 97, 98, 100, LT, SLASH, 105, GT>> }

SingleInit ==
    /\ variant = "single"
    /\ \E pair \in PipeLanguagePairs :
          source_lang = pair[1] /\ target_lang = pair[2]
    /\ source_rows \in
          SeqsUpTo(SourceRows(SingleWords, SingleDefinitions), MaxRecords)
    /\ ConvStart
    /\ IdxIdle /\ DictIdle /\ ParseIdle /\ PackIdle

SingleWord == source_rows[consumed + 1][1]

SingleDefinition == source_rows[consumed + 1][2]

SingleInLoop ==
    variant = "single" /\ conv_pc = "loop" /\ consumed < Len(source_rows)

\* batch after the forward append and the reverse appends of this row
SingleAppended ==
    batch
      \o ForwardInsert(<< Entry(Strip(SingleWord), Strip(SingleDefinition),
                                consumed + 1) >>)
      \o ReverseInsert([j \in 1..Len(SingleTerms(SingleDefinition)) |->
                           Entry(SingleTerms(SingleDefinition)[j],
                                 Strip(SingleWord), consumed + 1)])

\* if not word or not definition: continue
SingleSkipRow ==
    /\ SingleInLoop
    /\ (SingleWord = <<>> \/ SingleDefinition = <<>>)
    /\ consumed' = consumed + 1
    /\ UNCHANGED <<batch, variant, source_lang, target_lang,
                   source_rows, forward_batch, reverse_batch, db_rows,
                   committed, forward_count, reverse_count, error_count,
                   write_failures, conv_pc>>
    /\ UNCHANGED <<idxVars, dictVars, parseVars, packVars>>

\* one row: the appends, then the executemany when the batch is full
SingleProcessRow ==
    /\ SingleInLoop
    /\ SingleWord # <<>> /\ SingleDefinition # <<>>
    /\ IF Len(SingleAppended) >= batch_size
       THEN db_rows' = db_rows \o SingleAppended /\ batch' = <<>>
       ELSE db_rows' = db_rows /\ batch' = SingleAppended
    /\ forward_count' = forward_count + 1
    /\ reverse_count' = reverse_count + Len(SingleTerms(SingleDefinition))
    /\ consumed' = consumed + 1
    /\ UNCHANGED <<variant, source_lang, target_lang, source_rows,
                   forward_batch, reverse_batch, committed, error_count,
                   write_failures, conv_pc>>
    /\ UNCHANGED <<idxVars, dictVars, parseVars, packVars>>

\* the executemany of a full batch raises: nothing catches it inside the
\* method, nothing was committed
SingleWriteFails ==
    /\ SingleInLoop
    /\ SingleWord # <<>> /\ SingleDefinition # <<>>
    /\ CanFail
    /\ Len(SingleAppended) >= batch_size
    /\ db_rows' = SubSeq(db_rows, 1, committed)
    /\ write_failures' = write_failures + 1
    /\ conv_pc' = "raised"
    /\ UNCHANGED <<batch, variant, source_lang, target_lang,
                   source_rows, consumed, forward_batch, reverse_batch,
                   committed, forward_count, reverse_count, error_count>>
    /\ UNCHANGED <<idxVars, dictVars, parseVars, packVars>>

\* the remaining batch is left out
SingleFinishNoFlush ==
    /\ variant = "single" /\ conv_pc = "loop"
    /\ consumed = Len(source_rows)
    /\ committed' = Len(db_rows)
    /\ conv_pc' = "returned"
    /\ UNCHANGED <<batch, variant, source_lang, target_lang,
                   source_rows, consumed, forward_batch, reverse_batch,
                   db_rows, forward_count, reverse_count, error_count,
                   write_failures>>
    /\ UNCHANGED <<idxVars, dictVars, parseVars, packVars>>

\* process the remaining batch, commit, return the running counts
SingleFinish ==
    /\ variant = "single" /\ conv_pc = "loop"
    /\ consumed = Len(source_rows)
    /\ db_rows' = db_rows \o batch
    /\ committed' = Len(db_rows')
    /\ conv_pc' = "returned"
    /\ UNCHANGED <<batch, variant, source_lang, target_lang,
                   source_rows, consumed, forward_batch, reverse_batch,
                   forward_count, reverse_count, error_count,
                   write_failures>>
    /\ UNCHANGED <<idxVars, dictVars, parseVars, packVars>>

\* the last executemany or the commit raises
SingleFinishFails ==
    /\ variant = "single" /\ conv_pc = "loop"
    /\ consumed = Len(source_rows)
    /\ CanFail
    /\ db_rows' = SubSeq(db_rows, 1, committed)
    /\ write_failures' = write_failures + 1
    /\ conv_pc' = "raised"
    /\ UNCHANGED <<batch, variant, source_lang, target_lang,
                   source_rows, consumed, forward_batch, reverse_batch,
                   committed, forward_count, reverse_count, error_count>>
    /\ UNCHANGED <<idxVars, dictVars, parseVars, packVars>>

SingleNext ==
    \/ SingleSkipRow \/ SingleProcessRow \/ SingleWriteFails \/ SingleFinish
    \/ SingleFinishFails

(***************************************************************************)
(* A conversion run of any of the converters                               *)
(***************************************************************************)
ConvInit == FrInit \/ FrBasicPairInit \/ BiInit \/ PipeInit \/ SingleInit

ConvNext == FrNext \/ BiNext \/ PipeNext \/ SingleNext

SpecConv == ConvInit /\ [][ConvNext]_vars

(***************************************************************************)
(* PackDeployer (deploy_pack.py): deploy and its five steps                *)
(*                                                                         *)
(* The content of a zip stands for its SHA-256.  A summary file is         *)
(* "absent", "unreadable" (json.load raises), "empty" (the JSON object {}) *)
(* or "json"; checksum "none" is a summary without the checksum key, and   *)
(* complete says whether the keys update_registry reads are all there.     *)
(***************************************************************************)
LanguageIds == {"pt-en", "ru-en"}

ZipFiles == {"absent", "z1", "z2"}

Summary(kind, checksum, complete, id) ==
    [kind |-> kind, checksum |-> checksum, complete |-> complete,
     source_language |-> IF id = "pt-en" THEN "pt" ELSE "ru",
     target_language |-> "en"]

SummaryFiles(id) ==
    { Summary(k, "none", FALSE, id) : k \in {"absent", "unreadable", "empty"} }
        \cup { Summary("json", c, b, id) :
                  c \in {"z1", "z2", "none"}, b \in BOOLEAN }

\* load_pack_summary() returned a dictionary that is not empty
Loaded(summary) == summary.kind = "json"

\* verify_pack_ready: both files exist, and not
\* (summary and summary.get('checksum') != actual_checksum)
verify_pack_ready(zip, summary) ==
    /\ zip # "absent"
    /\ summary.kind # "absent"
    /\ ~(Loaded(summary) /\ summary.checksum # zip)

Registry(present, packs, total, languages, total_languages) ==
    [present |-> present, packs |-> packs, total_language_pairs |-> total,
     supported_languages |-> languages,
     total_languages_supported |-> total_languages]

\* pack_entry, reduced to the fields that differ between packs
PackEntry(id, summary) == [id |-> id, checksum |-> summary.checksum]

\* the new entry is always appended
AppendedPacks(packs, entry) == Append(packs, entry)

\* registry['packs'] after the existing_index search and the
\* replace-or-append
UpdatedPacks(packs, entry) ==
    IF \E k \in 1..Len(packs) : packs[k].id = entry.id
    THEN LET existing_index ==
                 CHOOSE k \in 1..Len(packs) :
                     /\ packs[k].id = entry.id
                     /\ \A m \in 1..(k - 1) : packs[m].id # entry.id
         IN  [packs EXCEPT ![existing_index] = entry]
    ELSE Append(packs, entry)

\* x appended to the list s when it is not in it
AddOnce(s, x) == IF \E k \in 1..Len(s) : s[k] = x THEN s ELSE Append(s, x)

\* the first language entry with this code gets the pair and the pack
WithPair(languages, code, other, id) ==
    IF \E k \in 1..Len(languages) : languages[k].code = code
    THEN LET k == CHOOSE k \in 1..Len(languages) :
                      /\ languages[k].code = code
                      /\ \A m \in 1..(k - 1) : languages[m].code # code
         IN  [languages EXCEPT
                 ![k].supported_pairs = AddOnce(@, other),
                 ![k].main_packs = AddOnce(@, id)]
    ELSE languages

\* registry['supported_languages'] after the source-language and the
\* target-language updates
UpdatedLanguages(languages, id, summary) ==
    LET src == summary.source_language
        tgt == summary.target_language
        with_source ==
            IF \E k \in 1..Len(languages) : languages[k].code = src
            THEN WithPair(languages, src, tgt, id)
            ELSE Append(languages,
                        [code |-> src, supported_pairs |-> <<tgt>>,
                         main_packs |-> <<id>>])
    IN  WithPair(with_source, tgt, src, id)

DeploySteps ==
    << "verify_pack_ready", "upload_to_github", "update_registry",
       "upload_registry", "verify_deployment" >>

InitialPacks ==
    { ids \in SeqsUpTo(LanguageIds, 2) :
          \A j, k \in 1..Len(ids) : j # k => ids[j] # ids[k] }

InitialLanguages ==
    { <<>>,
      << [code |-> "en", supported_pairs |-> <<>>, main_packs |-> <<>>] >> }

DeployInit ==
    /\ language_id = "" /\ zip_file = "absent"
    /\ summary_file = Summary("absent", "none", FALSE, "")
    /\ \/ registry = Registry(FALSE, <<>>, 0, <<>>, 0)
       \/ \E ids \in InitialPacks, languages \in InitialLanguages :
             registry =
                 Registry(TRUE,
                          [k \in 1..Len(ids) |->
                              [id |-> ids[k], checksum |-> "z1"]],
                          Len(ids), languages, Len(languages))
    /\ cwd \in {"parent", "elsewhere"}
    /\ release = {}
    /\ steps = <<>> /\ deploys = 0
    /\ deploy_pc = "idle" /\ deploy_result = "none"
    /\ IdxIdle /\ DictIdle /\ ParseIdle /\ ConvIdle /\ RunIdle /\ DriveIdle
    /\ ExtractIdle

\* PackDeployer(language_id).deploy() is called; the files of the pack are
\* whatever completed_packs holds at that time
DeployStart ==
    /\ deploy_pc \in {"idle", "returned"}
    /\ deploys < MaxDeploys
    /\ \E id \in LanguageIds :
          /\ language_id' = id
          /\ zip_file' \in ZipFiles
          /\ summary_file' \in SummaryFiles(id)
    /\ steps' = <<>> /\ deploys' = deploys + 1
    /\ deploy_pc' = "verify_pack_ready" /\ deploy_result' = "none"
    /\ UNCHANGED <<registry, cwd, release>>
    /\ UNCHANGED otherVars

\* deploy goes on to next whatever the step returned
StepDoneContinue(step, ok, next) ==
    /\ steps' = Append(steps, <<step, ok>>)
    /\ deploy_pc' = next
    /\ deploy_result' = deploy_result

\* a step returned ok: deploy goes on to next, or returns False
StepDone(step, ok, next) ==
    /\ steps' = Append(steps, <<step, ok>>)
    /\ deploy_pc' = IF ok THEN next ELSE "returned"
    /\ deploy_result' = IF ok THEN deploy_result ELSE "False"

\* Step 1
DeployVerifyPackReady ==
    /\ deploy_pc = "verify_pack_ready"
    /\ StepDone("verify_pack_ready",
                verify_pack_ready(zip_file, summary_file),
                "upload_to_github")
    /\ UNCHANGED <<language_id, zip_file, summary_file, registry, cwd,
                   release, deploys>>
    /\ UNCHANGED otherVars

\* Step 2: gh release view, gh release upload; either may fail
DeployUploadToGithub ==
    /\ deploy_pc = "upload_to_github"
    /\ \E ok \in BOOLEAN :
          /\ StepDone("upload_to_github", ok, "update_registry")
          /\ release' = IF ok
                        THEN release \cup {<<"pack", language_id, zip_file>>}
                        ELSE release
    /\ UNCHANGED <<language_id, zip_file, summary_file, registry, cwd,
                   deploys>>
    /\ UNCHANGED otherVars

\* Step 3: False without a summary or a registry, False from the except
\* when the summary lacks a key; else the registry file is rewritten
DeployUpdateRegistry ==
    /\ deploy_pc = "update_registry"
    /\ LET ok == /\ Loaded(summary_file) /\ summary_file.complete
                 /\ summary_file.checksum # "none"
                 /\ registry.present
           packs == UpdatedPacks(registry.packs,
                                 PackEntry(language_id, summary_file))
           languages == UpdatedLanguages(registry.supported_languages,
                                         language_id, summary_file)
       IN  /\ StepDone("update_registry", ok, "upload_registry")
           /\ registry' = IF ok
                          THEN Registry(TRUE, packs, Len(packs), languages,
                                        Len(languages))
                          ELSE registry
    /\ UNCHANGED <<language_id, zip_file, summary_file, cwd, release,
                   deploys>>
    /\ UNCHANGED otherVars

\* Step 4: gh release upload of Path.cwd() / "comprehensive-registry.json",
\* which is the file of step 3 only when run from its directory
DeployUploadRegistry ==
    /\ deploy_pc = "upload_registry"
    /\ \E ok \in BOOLEAN :
          /\ StepDone("upload_registry", ok, "verify_deployment")
          /\ release' = IF ok
                        THEN release \cup
                               {<<"registry", cwd,
                                  IF cwd = "parent" THEN registry.packs
                                  ELSE <<>> >>}
                        ELSE release
    /\ UNCHANGED <<language_id, zip_file, summary_file, registry, cwd,
                   deploys>>
    /\ UNCHANGED otherVars

\* Step 5: the two HEAD requests
DeployVerifyDeployment ==
    /\ deploy_pc = "verify_deployment"
    /\ \E ok \in BOOLEAN :
          StepDone("verify_deployment", ok, "success")
    /\ UNCHANGED <<language_id, zip_file, summary_file, registry, cwd,
                   release, deploys>>
    /\ UNCHANGED otherVars

\* the success summary and return True
DeployReturn ==
    /\ deploy_pc = "success"
    /\ deploy_pc' = "returned"
    /\ deploy_result' = "True"
    /\ UNCHANGED <<language_id, zip_file, summary_file, registry, cwd,
                   release, steps, deploys>>
    /\ UNCHANGED otherVars

DeployNext ==
    \/ DeployStart \/ DeployVerifyPackReady \/ DeployUploadToGithub
    \/ DeployUpdateRegistry \/ DeployUploadRegistry
    \/ DeployVerifyDeployment \/ DeployReturn

SpecDeploy == DeployInit /\ [][DeployNext]_vars

(***************************************************************************)
(* Claims about read_idx_file                                              *)
(***************************************************************************)
WellFormedItem(it) == it.word # <<>> /\ Utf8Decode(it.word).ok

RecordOf(it) == << Utf8Decode(it.word).text, it.offset, it.size >>

RecordsOf(its) == [i \in 1..Len(its) |-> RecordOf(its[i])]

AllWellFormed(its) == \A i \in 1..Len(its) : WellFormedItem(its[i])

\* C1: a stream of N well-formed records is returned as exactly those N
\* (word, offset, size) tuples, in file order.
C1_RoundTrip ==
    (idx_pc = "returned" /\ cut = 0 /\ AllWellFormed(items))
        => words = RecordsOf(items)

C1_Witness ==
    /\ idx_pc = "returned" /\ cut = 0 /\ AllWellFormed(items)
    /\ Len(items) = 2 /\ Len(words) = 2
    /\ items[1].offset = 0 /\ items[1].size = 258
    /\ items[2].word = <<195, 169>> /\ words[2][1] = <<233>>

\* C2: a record whose word is not valid UTF-8 is discarded alone; every
\* well-formed record before or after it is still returned.
C2_DiscardAlone ==
    (idx_pc = "returned" /\ cut = 0
       /\ \A i \in 1..Len(items) : items[i].word # <<>>)
        => words = RecordsOf(SelectSeq(items, WellFormedItem))

\* C3: when the stream ends after a word's terminator but before the full
\* 8 bytes of offset and size, exactly the records before that word are
\* returned and none for the truncated word.
TruncatedTail ==
    /\ Len(items) >= 1
    /\ cut >= 1 /\ cut <= 8
    /\ items[Len(items)].word # <<>>
    /\ AllWellFormed(SubSeq(items, 1, Len(items) - 1))

C3_TruncatedTail ==
    (idx_pc = "returned" /\ TruncatedTail)
        => words = RecordsOf(SubSeq(items, 1, Len(items) - 1))

C3_Witness ==
    /\ idx_pc = "returned" /\ TruncatedTail
    /\ Len(items) = 2 /\ cut = 3 /\ WellFormedItem(items[2])
    /\ words = << RecordOf(items[1]) >>

(***************************************************************************)
(* Claims about parse_stardict_entry and read_dict_file                    *)
(***************************************************************************)
\* C7: the cleanup is idempotent: parsing the clean gloss of a first parse
\* returns the same clean gloss.
C7_CleanupIdempotent ==
    parse_pc = "reparsed" => reparsed[1] = parsed[1]

\* the text the decoding policy selects for the bytes read
DecodedText(data) ==
    IF Utf8Decode(data).ok THEN Utf8Decode(data).text ELSE Latin1Decode(data)

\* r is t without its leading and trailing whitespace
BothEndsTrimmed(t, r) ==
    \E i \in 0..Len(t), j \in 0..Len(t) :
        /\ i <= j
        /\ r = SubSeq(t, i + 1, j)
        /\ \A k \in 1..i : IsSpace(t[k])
        /\ \A k \in (j + 1)..Len(t) : IsSpace(t[k])
        /\ (r # <<>> => ~IsSpace(r[1]) /\ ~IsSpace(r[Len(r)]))

\* r is t without its trailing whitespace, the leading part untouched
RightTrimmed(t, r) ==
    \E j \in 0..Len(t) :
        /\ r = SubSeq(t, 1, j)
        /\ \A k \in (j + 1)..Len(t) : IsSpace(t[k])
        /\ (j > 0 => ~IsSpace(t[j]))

IsReverse(r) == r.direction = "reverse"

IsForward(r) == r.direction = "forward"

\* C4: every row written carries, when forward, the pack's
\* (source, target) and, when reverse, the swapped pair; there is no
\* other direction.
C4_DirectionLanguages ==
    \A j \in 1..Len(db_rows) :
        \/ /\ db_rows[j].direction = "forward"
           /\ db_rows[j].source_language = source_lang
           /\ db_rows[j].target_language = target_lang
        \/ /\ db_rows[j].direction = "reverse"
           /\ db_rows[j].source_language = target_lang
           /\ db_rows[j].target_language = source_lang

C4_Witness ==
    /\ variant = "pipeline" /\ conv_pc = "loop"
    /\ consumed < Len(source_rows)
    /\ \E j \in 1..Len(db_rows) : IsForward(db_rows[j])
    /\ \E j \in 1..Len(db_rows) :
          /\ IsReverse(db_rows[j])
          /\ db_rows[j].source_language = "en"
          /\ db_rows[j].target_language = "de"

\* C5: the separator-priority converter inserts no reverse row whose lemma
\* equals the stored source word, and still inserts a reverse row for
\* every other candidate of the same definition.
C5_NoSelfReference ==
    variant = "bidir" =>
        /\ \A j \in 1..Len(db_rows) :
              IsReverse(db_rows[j])
                  => db_rows[j].lemma # db_rows[j].definition
        /\ conv_pc # "raised" =>
              \A n \in 1..consumed :
                 LET w == Strip(source_rows[n][1])
                     d == Strip(source_rows[n][2])
                     c == BiTranslations(d)
                 IN  (w # <<>> /\ d # <<>>) =>
                       \A k \in 1..Len(c) :
                          c[k] # w =>
                            \E j \in 1..Len(db_rows) :
                               /\ IsReverse(db_rows[j])
                               /\ db_rows[j].rec = n
                               /\ db_rows[j].lemma = c[k]
                               /\ db_rows[j].definition = w

C5_Witness ==
    /\ variant = "bidir" /\ conv_pc = "returned"
    /\ Len(source_rows) >= 1
    /\ source_rows[1] = << <<97>>, <<97, COMMA, 98>> >>
    /\ \E j \in 1..Len(db_rows) :
          /\ IsReverse(db_rows[j]) /\ db_rows[j].rec = 1
          /\ db_rows[j].lemma = <<98>> /\ db_rows[j].definition = <<97>>
    /\ ~\E j \in 1..Len(db_rows) :
          /\ IsReverse(db_rows[j]) /\ db_rows[j].rec = 1
          /\ db_rows[j].lemma = <<97>>

\* C6: the French converter writes no reverse row whose lemma equals its
\* definition.
C6_NoSelfReferenceFrench ==
    variant = "french" =>
        \A j \in 1..Len(db_rows) :
            IsReverse(db_rows[j])
                => db_rows[j].lemma # db_rows[j].definition

\* the record n of the index has an empty raw definition or an empty
\* clean gloss
EmptyRecord(n) ==
    LET definition == read_dict_file(dict_bytes, words[n][2], words[n][3])
    IN  definition = <<>> \/ parse_stardict_entry(definition)[1] = <<>>

RecsOf(entries) == { entries[j].rec : j \in 1..Len(entries) }

\* C8: in the French converter a record with an empty raw definition or an
\* empty clean gloss yields no forward and no reverse entry, and the
\* records after it are still converted.
C8_EmptyDropped ==
    variant = "french" =>
        /\ \A n \in RecsOf(db_rows) \cup RecsOf(forward_batch)
                      \cup RecsOf(reverse_batch) : ~EmptyRecord(n)
        /\ conv_pc # "raised" =>
              \A n \in 1..consumed :
                 ~EmptyRecord(n) =>
                    n \in RecsOf(SelectSeq(db_rows, IsForward))
                             \cup RecsOf(forward_batch)

C8_Witness ==
    /\ variant = "french" /\ conv_pc = "returned"
    /\ Len(words) = 3
    /\ words[1][2] = 0 /\ words[1][3] = 3 /\ EmptyRecord(1)
    /\ words[2][2] = 4 /\ words[2][3] = 1 /\ EmptyRecord(2)
    /\ ~EmptyRecord(3)
    /\ RecsOf(db_rows) = {3}

\* C10: in the French converter a database write failure aborts the
\* conversion: the function never returns normally after a failed write.
C10_WriteFailureAborts ==
    (variant = "french" /\ conv_pc = "returned") => write_failures = 0

(***************************************************************************)
(* Claims about a build on the file system                                 *)
(***************************************************************************)
\* the database this build is to produce
NewDatabase == PackDatabase(ThisGen, source_count)

\* C11: in the French converter, when one of the .ifo, .idx or .dict* files
\* is absent the function raises before the destination is opened: no
\* destination file is created and nothing is written.
C11_MissingFileRaisesFirst ==
    (builder = "french" /\ ~(StarDictKinds \subseteq stardict_files))
        => /\ run_pc \in {"check_files", "raised"}
           /\ fs = fs0
           /\ txn = NoTxn

C11_Witness ==
    /\ builder = "french" /\ stardict_files = {"ifo", "idx"}
    /\ run_pc = "raised"
    /\ fs["app"] = Absent

\* C13: at every step of a build the path the application reads holds the
\* complete previous database or the complete new one.
C13_ReplaceOnSuccess ==
    (builder # "none" /\ fs0["app"].kind # "empty")
        => fs["app"] \in {fs0["app"], NewDatabase}

\* the build has ended without any database write having failed
RunEnded == run_pc \in {"returned", "raised"}

\* the source of this build is usable
SourceUsable ==
    /\ builder = "french" => StarDictFound(stardict_files)
    /\ builder = "bidir" => fs0["app"].kind = "stardict"

\* C15: a build whose destination path already holds a database of an
\* earlier build completes and leaves exactly the database of this build's
\* source at the path the application reads.
C15_RerunFullReplace ==
    (/\ builder # "none" /\ RunEnded /\ SourceUsable
     /\ fs0[DestPath].kind = "bidirectional")
        => run_pc = "returned" /\ fs["app"] = NewDatabase

(***************************************************************************)
(* Claims about the multi-pack drivers                                     *)
(***************************************************************************)
ConfiguredPacks == [p \in 1..pack_count |-> p]

\* C12: a driver attempts every configured pack exactly once, in
\* configuration order, whatever the outcome of earlier packs, and at the
\* end each pack is recorded in exactly one of successful_packs and
\* failed_packs.
C12_EveryPackOnce ==
    drive_pc = "done" =>
        /\ attempts = ConfiguredPacks
        /\ driver \in {"run_pipeline", "create_all_packs"} =>
              \A p \in 1..pack_count :
                 Occurrences(successful_packs, p)
                     + Occurrences(failed_packs, p) = 1

\* C14: when the packaging of a pack fails, the pack is reported as failed
\* and neither a zip nor the database built in this run is left in the
\* output location.
C14_NoPartialArtifact ==
    \A p \in package_failed :
        /\ Occurrences(failed_packs, p) = 1
        /\ Occurrences(successful_packs, p) = 0
        /\ \A k \in {"sqlite", "zip", "partial_zip"} :
              Artifact(p, k) \notin output_files

(***************************************************************************)
(* Claims about the reverse candidates                                     *)
(***************************************************************************)
\* the pieces the separator rule yields: the non-empty trimmed pieces of
\* the split on the first separator of the priority order that occurs in
\* d, and d itself only when no separator occurs in it
ClaimedCandidates(d) ==
    IF \A k \in 1..Len(Separators) : ~ContainsSeq(d, Separators[k])
    THEN << d >>
    ELSE LET k == CHOOSE k \in 1..Len(Separators) :
                      /\ ContainsSeq(d, Separators[k])
                      /\ \A m \in 1..(k - 1) : ~ContainsSeq(d, Separators[m])
         IN  SelectSeq(StripAll(SplitOn(d, Separators[k])), NonEmpty)

\* the lemmas of the reverse rows written for source record n, in order
ReverseLemmasOf(n) ==
    LET rows == SelectSeq(db_rows, LAMBDA r : IsReverse(r) /\ r.rec = n)
    IN  [j \in 1..Len(rows) |-> rows[j].lemma]

\* C16: in the separator-priority converter the reverse candidates of a
\* definition are exactly the non-empty trimmed pieces of the split on the
\* highest-priority separator present; the whole definition is the single
\* candidate only when it contains no separator.
C16_SeparatorCandidates ==
    (variant = "bidir" /\ conv_pc # "raised") =>
        \A n \in 1..consumed :
            LET w == Strip(source_rows[n][1])
                d == Strip(source_rows[n][2])
            IN  (w # <<>> /\ d # <<>>) =>
                    ReverseLemmasOf(n)
                        = SelectSeq(ClaimedCandidates(d), LAMBDA t : t # w)

\* C17: at most ReverseCap reverse rows are written for a source record.
C17_ReverseFanOutBounded ==
    variant = "bidir" =>
        \A n \in 1..Len(source_rows) : Len(ReverseLemmasOf(n)) <= ReverseCap

(***************************************************************************)
(* Claims about extract_reverse_translations                               *)
(***************************************************************************)
\* a non-ASCII letter
ContainsAccentedLatin(w) ==
    \E i \in 1..Len(w) : w[i] > 127 /\ IsAlphaChar(w[i])

\* the pieces of the definition that are non-empty after trimming
TrimmedCandidates(definition) ==
    SelectSeq(StripAll(SplitOnAll(<< ReSubDelimited(definition, LT, GT) >>,
                                  ExtractSeparators)),
              NonEmpty)

FirstN(s, n) == SubSeq(s, 1, IF Len(s) < n THEN Len(s) ELSE n)

\* C18: with target language 'en' no returned candidate contains a
\* non-ASCII accented Latin character; with any other target language
\* every candidate that is non-empty after trimming is returned, up to the
\* cap.
C18_LanguageFilter ==
    ext_pc = "returned" =>
        /\ ext_target_lang = "en" =>
              \A j \in 1..Len(reverse_words) :
                 ~ContainsAccentedLatin(reverse_words[j])
        /\ ext_target_lang # "en" =>
              reverse_words
                  = FirstN(TrimmedCandidates(ext_definition), ReverseCap)

(***************************************************************************)
(* Claims about the rows of dictionary_entries                             *)
(***************************************************************************)
\* C19: every row written to dictionary_entries, forward or reverse, has a
\* non-empty lemma and a non-empty definition.
C19_NonEmptyFields ==
    \A j \in 1..Len(db_rows) :
        db_rows[j].lemma # <<>> /\ db_rows[j].definition # <<>>

\* a row as stored, without the source record it came from
Stored(r) ==
    << r.lemma, r.definition, r.direction, r.source_language,
       r.target_language >>

\* C20: for the basic pair the conversion writes exactly the forward row
\* ("chat", "cat", forward, fr, en) and the reverse row
\* ("cat", "chat", reverse, en, fr).
C20_BasicPair ==
    (/\ variant = "french" /\ conv_pc = "returned"
     /\ words = BasicPairWords /\ dict_bytes = BasicPairDictBytes)
        => [j \in 1..Len(db_rows) |-> Stored(db_rows[j])]
               = << << <<99, 104, 97, 116>>, <<99, 97, 116>>,
                       "forward", "fr", "en" >>,
                    << <<99, 97, 116>>, <<99, 104, 97, 116>>,
                       "reverse", "en", "fr" >> >>

(***************************************************************************)
(* Claims about batching                                                   *)
(***************************************************************************)
\* the rows one source record yields in one direction when it is written
\* on its own, without any buffering
ProducedBy(n, direction) ==
    CASE variant = "french" ->
           LET word == words[n][1]
               raw == read_dict_file(dict_bytes, words[n][2], words[n][3])
               clean == parse_stardict_entry(raw)[1]
           IN  IF Strip(raw) = <<>> \/ Strip(clean) = <<>> THEN <<>>
               ELSE IF direction = "forward"
               THEN french_forward_rows(
                        << Entry(Strip(word), Strip(clean), n) >>)
               ELSE IF clean # word
               THEN french_reverse_rows(
                        << Entry(Strip(clean), Strip(word), n) >>)
               ELSE <<>>
      [] variant = "pipeline" ->
           LET word == source_rows[n][1]
               definition == source_rows[n][2]
               lemmas == PipeReverseLemmas(word, definition)
           IN  IF word = <<>> \/ definition = <<>> THEN <<>>
               ELSE IF direction = "forward"
               THEN ForwardInsert(
                        << Entry(Strip(word), Strip(definition), n) >>)
               ELSE ReverseInsert([j \in 1..Len(lemmas) |->
                        Entry(Strip(lemmas[j]), Strip(word), n)])
      [] variant = "single" ->
           LET word == source_rows[n][1]
               definition == source_rows[n][2]
               terms == SingleTerms(definition)
           IN  IF word = <<>> \/ definition = <<>> THEN <<>>
               ELSE IF direction = "forward"
               THEN ForwardInsert(
                        << Entry(Strip(word), Strip(definition), n) >>)
               ELSE ReverseInsert([j \in 1..Len(terms) |->
                        Entry(terms[j], Strip(word), n)])
      [] OTHER -> <<>>

\* the rows of the first n source records, in source order
RECURSIVE ProducedUpTo(_, _)
ProducedUpTo(n, direction) ==
    IF n = 0 THEN <<>>
    ELSE ProducedUpTo(n - 1, direction) \o ProducedBy(n, direction)

Batching == {"french", "pipeline", "single"}

\* C21: when a batching conversion completes without error, the forward
\* rows of the database, by increasing id, are the forward entries of the
\* records in source order, each exactly once, and likewise the reverse
\* rows: nothing is lost or doubled at a batch boundary or in the final
\* flush.
C21_BatchingTransparent ==
    (variant \in Batching /\ conv_pc = "returned" /\ write_failures = 0)
        => \A direction \in {"forward", "reverse"} :
              SelectSeq(db_rows, LAMBDA r : r.direction = direction)
                  = ProducedUpTo(consumed, direction)

\* a run of the single-language generator that flushed a full batch in
\* the loop and a shorter one after it
C21_Witness ==
    /\ variant = "single" /\ conv_pc = "returned" /\ write_failures = 0
    /\ batch # <<>> /\ Len(db_rows) > Len(batch)
    /\ reverse_count > 0
    /\ consumed = Len(source_rows)

(***************************************************************************)
(* Claims about the termination of read_idx_file                           *)
(***************************************************************************)
\* one step of the loop never moves the file position backwards, reading a
\* word consumes the bytes of the word, and the loop goes on to another
\* iteration only after a word of at least one byte
ForwardPass ==
    /\ idx_pos' >= idx_pos /\ idx_pos' <= Len(idx_bytes)
    /\ idx_pc = "read_word" => idx_pos' - idx_pos >= Len(word_bytes')
    /\ (idx_pc = "check_word" /\ idx_pc' = "read_word") => word_bytes # <<>>

\* C22: read_idx_file terminates on every finite byte stream (undecodable
\* words, empty words, a missing final terminator, a truncated tail): it
\* makes one forward pass in which every iteration of the loop consumes at
\* least one byte or stops the parse.
C22_Terminates ==
    /\ <>(idx_pc = "returned")
    /\ [][ForwardPass]_vars

\* the parse of a truncated stream holding an undecodable word has returned
C22_Witness ==
    /\ idx_pc = "returned" /\ cut > 0 /\ idx_pos = Len(idx_bytes)
    /\ \E k \in 1..Len(items) :
          items[k].word # <<>> /\ ~Utf8Decode(items[k].word).ok
    /\ Len(idx_bytes) > 0

(***************************************************************************)
(* Claims about the reuse of an existing pack                              *)
(***************************************************************************)
\* C23: when the pipeline finds the pack's output database with more than
\* 1000 rows, it reuses it: the file is neither deleted nor rebuilt, at
\* any step up to and including the return.
C23_ReuseExisting ==
    (/\ builder = "pipeline"
     /\ HasEntriesTable(fs0["app"])
     /\ Len(fs0["app"].rows) > reuse_minimum)
        => fs["app"] = fs0["app"]

(***************************************************************************)
(* Claims about PackDeployer                                               *)
(***************************************************************************)
Ran(step, ok) == \E k \in 1..Len(steps) : steps[k] = <<step, ok>>

\* C24: deploy uploads the pack's zip only if the SHA-256 of the local zip
\* equals the checksum recorded in the summary file; with a summary that
\* is missing, unreadable or records another checksum nothing is uploaded.
C24_UploadOnlyVerified ==
    Ran("upload_to_github", TRUE)
        => Loaded(summary_file) /\ summary_file.checksum = zip_file

\* steps is a prefix of the five steps, and only its last step may have
\* returned False
InOrder ==
    /\ Len(steps) <= Len(DeploySteps)
    /\ \A k \in 1..Len(steps) :
          /\ steps[k][1] = DeploySteps[k]
          /\ k < Len(steps) => steps[k][2]

\* C25: deploy runs verify_pack_ready, upload_to_github, update_registry,
\* upload_registry, verify_deployment in this order and stops at the first
\* step that fails: the local registry is modified only after the pack
\* upload succeeded, the registry is uploaded only after it was updated,
\* and deploy returns True only if all five steps succeeded.
C25_StepsInOrder ==
    /\ [](/\ InOrder
          /\ deploy_result = "True" =>
                 /\ Len(steps) = Len(DeploySteps)
                 /\ \A k \in 1..Len(steps) : steps[k][2]
          /\ deploy_result = "False" => ~steps[Len(steps)][2])
    /\ [][/\ registry' # registry => Ran("upload_to_github", TRUE)
          /\ (\E asset \in release' \ release : asset[1] = "registry")
                 => Ran("update_registry", TRUE)]_vars

\* a deploy whose five steps succeeded has returned True
C25_Witness ==
    /\ deploy_pc = "returned" /\ deploy_result = "True"
    /\ Len(steps) = Len(DeploySteps)
    /\ <<"pack", language_id, zip_file>> \in release
    /\ \E asset \in release : asset[1] = "registry"

\* C26: after any sequence of update_registry calls, from a registry whose
\* pack ids are pairwise distinct, the packs list holds at most one entry
\* per pack id and total_language_pairs equals the length of the list.
C26_OneEntryPerPack ==
    registry.present
        => /\ \A j, k \in 1..Len(registry.packs) :
                 j # k => registry.packs[j].id # registry.packs[k].id
           /\ registry.total_language_pairs = Len(registry.packs)

\* the second deploy replaced, in place, the first of two entries
C26_Witness ==
    /\ deploys = 2 /\ Ran("update_registry", TRUE)
    /\ registry.present /\ Len(registry.packs) = 2
    /\ registry.packs[1] = [id |-> language_id, checksum |-> "z2"]
    /\ registry.packs[2].id # language_id

(***************************************************************************)
(* Claims about the registries the drivers write                           *)
(***************************************************************************)
\* C27: after consolidate_language_packs completes, for every pack entry
\* it added to the registry the assets directory holds an archive named
\* <id>.sqlite.zip (the file the entry's download_url names) and that
\* archive contains <id>.sqlite.
C27_ArchiveForEveryEntry ==
    driver = "consolidate_language_packs" /\ drive_pc = "done" =>
        \A k \in 1..Len(results) :
            LET id == conversions[results[k][1]].pack_id
            IN  AssetFile(DownloadName(id), << id, "sqlite" >>)
                    \in output_files

\* the steps of process_language_pack
PackSteps == {"build", "convert", "verify", "package"}

\* the members of a list
Members(s) == { s[k] : k \in 1..Len(s) }

\* C28: in run_pipeline the registry written by update_registry holds an
\* entry for a pack only if the pack's build, conversion, verification and
\* packaging all succeeded in this run; a pack recorded as failed is never
\* in the registry nor in a list passed to upload_to_github.
C28_RegistryOnlySuccessful ==
    driver = "run_pipeline" /\ drive_pc \in {"upload", "done"} =>
        /\ \A p \in Members(drive_registry) :
              \A step \in PackSteps : << p, step >> \in passed
        /\ \A p \in Members(failed_packs) :
              /\ p \notin Members(drive_registry)
              /\ \A k \in 1..Len(uploads) : p \notin Members(uploads[k])

\* a run with a failed and a successful pack, the registry written and the
\* successful packs handed to upload_to_github
C28_Witness ==
    /\ driver = "run_pipeline" /\ drive_pc = "done"
    /\ failed_packs # <<>>
    /\ drive_registry # <<>>
    /\ uploads # <<>>

(***************************************************************************)
(* Claims about the forward and reverse entries of the French converter    *)
(***************************************************************************)
\* the rows of one direction that record n has in the database
RowsOf(n, direction) ==
    { j \in 1..Len(db_rows) :
         db_rows[j].rec = n /\ db_rows[j].direction = direction }

\* the entries waiting in a batch: after the loop the final flush has
\* written the batches, whose lists are not cleared
Pending(buffered) == IF conv_pc = "loop" THEN buffered ELSE <<>>

\* the waiting entries of record n
BufferedOf(buffered, n) ==
    { j \in 1..Len(Pending(buffered)) : buffered[j].rec = n }

\* the number of rows of one direction in the database
Inserted(direction) ==
    Cardinality({ j \in 1..Len(db_rows) : db_rows[j].direction = direction })

\* C29: in the French converter each source record yields at most one
\* reverse entry, and only together with a forward entry of which it is the
\* (definition, lemma) swap; so in every state the reverse entries, inserted
\* plus buffered, are at most as many as the forward entries, inserted plus
\* buffered.
C29_ReverseAtMostForward ==
    variant = "french" =>
        /\ \A n \in 1..Len(words) :
              /\ Cardinality(RowsOf(n, "reverse"))
                    + Cardinality(BufferedOf(reverse_batch, n)) <= 1
              /\ \A j \in RowsOf(n, "reverse") :
                    \/ \E k \in RowsOf(n, "forward") :
                          /\ db_rows[k].lemma = db_rows[j].definition
                          /\ db_rows[k].definition = db_rows[j].lemma
                    \/ \E k \in BufferedOf(forward_batch, n) :
                          /\ forward_batch[k].lemma = db_rows[j].definition
                          /\ forward_batch[k].definition = db_rows[j].lemma
              /\ \A j \in BufferedOf(reverse_batch, n) :
                    \/ \E k \in RowsOf(n, "forward") :
                          /\ db_rows[k].lemma = reverse_batch[j].definition
                          /\ db_rows[k].definition = reverse_batch[j].lemma
                    \/ \E k \in BufferedOf(forward_batch, n) :
                          /\ forward_batch[k].lemma
                                = reverse_batch[j].definition
                          /\ forward_batch[k].definition
                                = reverse_batch[j].lemma
        /\ Inserted("reverse") + Len(Pending(reverse_batch))
              <= Inserted("forward") + Len(Pending(forward_batch))

(***************************************************************************)
(* Claims about the empty word of the index                                *)
(***************************************************************************)
\* the first item whose word is empty, 0 when there is none
FirstEmptyWord ==
    IF \E k \in 1..Len(items) : items[k].word = <<>>
    THEN CHOOSE k \in 1..Len(items) :
            /\ items[k].word = <<>>
            /\ \A m \in 1..(k - 1) : items[m].word # <<>>
    ELSE 0

\* the well-formed records before the first empty word, whose 0x00 byte is
\* in the stream
EmptyWordMet ==
    /\ FirstEmptyWord > 0
    /\ AllWellFormed(SubSeq(items, 1, FirstEmptyWord - 1))
    /\ Len(idx_bytes)
          > Len(EncodeItems(SubSeq(items, 1, FirstEmptyWord - 1)))

\* C30: read_idx_file ends the parse at the first empty word: with a 0x00
\* byte where a word should begin it returns the records parsed so far,
\* without error, and no record located after that position.
C30_StopsAtEmptyWord ==
    EmptyWordMet =>
        /\ idx_pc = "returned" =>
              words = RecordsOf(SubSeq(items, 1, FirstEmptyWord - 1))
        /\ Len(words) < FirstEmptyWord

\* an empty word followed by a well-formed record that is not returned
C30_Witness ==
    /\ idx_pc = "returned" /\ cut = 0
    /\ Len(items) = 2 /\ FirstEmptyWord = 1
    /\ WellFormedItem(items[2])
    /\ EmptyWordMet
    /\ words = <<>>
====
